---- MODULE Spec2Model ----
(***************************************************************************)
(* Model of the dataset ingestion pipeline of yolo-dataset-backend:        *)
(*   - the chunked upload sessions of app/api/upload.py,                   *)
(*   - the batch object uploader of app/services/minio_service.py,         *)
(*   - the per-split ingestion of app/services/upload_service.py.          *)
(***************************************************************************)
EXTENDS Integers, Sequences, FiniteSets, Bags, TLC

(***************************************************************************)
(* Bounds of the model.                                                    *)
(***************************************************************************)
MaxChunks == 2            \* largest total_chunks a client declares
MaxInflight == 2          \* chunk requests suspended at `await file.read()`
MaxItems == 2             \* longest file_list handed to upload_files
MaxRetries == 2           \* largest max_retries handed to upload_files
MaxWorkers == 2           \* largest max_workers handed to upload_files
MaxImages == 3            \* most image files in one split directory
MaxDatasets == 3          \* most dataset documents ever inserted
MaxLines == 3             \* most lines in a label file
MaxSplitImages == 1       \* most images of one split
MaxAnnotations == 2       \* most annotations of a label file, and most
                          \* annotations created through AnnotationService
MaxNames == 3             \* most object names in a get_files_urls call
MaxCalls == 2             \* most AnnotationService calls under way at a time

(***************************************************************************)
(* Program constants.  Sizes are counted in GiB.                           *)
(***************************************************************************)
max_upload_size == 100    \* config.py: 100 * 1024 * 1024 * 1024 bytes
split_max_workers == 15   \* upload_service.py: process_split's max_workers
split_max_retries == 3    \* upload_service.py: process_split's max_retries

VARIABLES
    upload_sessions,   \* upload.py:21  the registry: session id -> session dict
    temp_files,        \* temp_files[s]: where session["temp_file"] of the
                       \* session started under id s lies (ids are never reused)
    dirs,              \* session ids whose temp_dir exists on disk
    parts,             \* parts[s][i]: the file "<temp_file>.part<i>"
    assembled,         \* assembled[s]: the file session["temp_file"]
    inflight,          \* the bag of chunk requests suspended between
                       \* open(chunk_path) and the write
    cpc,               \* position of the running complete_upload handler
    csid,              \* the session that handler works on
    cerr,              \* the exception that handler is handling, if any
    resp,              \* the last response returned to a client (none while a
                       \* chunk request is suspended or an except block runs)
    ingested           \* the sessions whose complete_upload has returned the
                       \* result of process_dataset (kept for the properties;
                       \* the code keeps no such record)

sessionVars == <<upload_sessions, temp_files, dirs, parts, assembled, inflight,
                 cpc, csid, cerr, resp, ingested>>

VARIABLES
    file_list,         \* upload_files: the items, (file_path, object_name) each
    max_workers,       \* upload_files: size of the thread pool
    max_retries,       \* upload_files: number of retry rounds allowed
    upc,               \* position of the running upload_files call
    batch,             \* _batch_upload_attempt: its file_list
    fut,               \* _batch_upload_attempt: the futures, one per item
    results,           \* _batch_upload_attempt: results collected so far
    all_results,       \* upload_files: results of every pass (their order is
                       \* read nowhere: kept as a bag)
    success_list,      \* upload_files: object names reported uploaded
    failed_list,       \* upload_files: items that failed in the last pass
    retry_count,       \* upload_files: retry rounds started
    retry_attempts,    \* upload_files: retry_info["retry_attempts"]
    summary,           \* upload_files: the dict it returns
    store              \* the bucket: items whose fput_object has returned

uploadVars == <<file_list, max_workers, max_retries, upc, batch, fut, results,
                all_results, success_list, failed_list, retry_count,
                retry_attempts, summary, store>>

VARIABLES
    ipc,               \* position of the running process_split call
    split_dirs,        \* which of images/<split>, labels/<split> exist
    image_files,       \* process_split: the image files globbed, in order
    next_image,        \* process_split: index of the next file to prepare
    upload_list,       \* process_split: (local path, minio path) per staged image
    image_doc_list,    \* process_split: the candidate image documents
    total_file_size,   \* process_split: bytes accumulated in phase 1
    images,            \* the images collection of the document store
    split_result       \* (image_count, annotation_count, total_file_size) returned

ingestVars == <<ipc, split_dirs, image_files, next_image, upload_list,
                image_doc_list, total_file_size, images, split_result>>

VARIABLES
    datasets,          \* the datasets collection: id -> dataset document
    name_index,        \* whether the collection has a unique index on name
    ids_issued,        \* number of _id values the collection has handed out
    jpc,               \* position of the running ingestion
    flow,              \* its coordinator: "service" (UploadService) or
                       \* "importer" (YOLODatasetImporter)
    job_name,          \* the name of the dataset it ingests
    dataset_id,        \* the id of the record it created, 0 before that
    job_outcome,       \* how it ended: "success" or "failure"
    splits_done,       \* the splits process_split has returned for, in order
    missing_splits,    \* those of them whose directory was missing
    create_resp        \* the last response of POST /datasets

datasetVars == <<datasets, name_index, ids_issued, jpc, flow, job_name,
                 dataset_id, job_outcome, splits_done, missing_splits,
                 create_resp>>

VARIABLES
    label_file,        \* parse_annotations: the label file, its lines split
                       \* into tokens
    decode_type,       \* parse_annotations: dataset_type
    decoded,           \* parse_annotations: the annotations it returned
    kpc,               \* position of the parse_annotations call
    root_listing,      \* get_dataset_type: os.listdir of the dataset root
    inferred           \* get_dataset_type: the type it returned

decodeVars == <<label_file, decode_type, decoded, kpc, root_listing, inferred>>

VARIABLES
    image_records,     \* the images collection: records with their counters
    annotation_docs,   \* the annotations collection of AnnotationService
    annotations_issued,\* number of _id values that collection has handed out
    dataset_record,    \* the counters of the dataset record the images belong to
    rpc,               \* position of the importer run that fills the record
    split_counts,      \* what process_split returned for each split so far
    calls,             \* the create_annotation / delete_annotation calls under
                       \* way: where each is, its image and the count it read
    touched            \* the images such a call has been made on (kept for
                       \* the properties)

recordVars == <<image_records, annotation_docs, annotations_issued,
                dataset_record, rpc, split_counts, calls, touched>>

VARIABLES
    object_names,      \* get_files_urls: the object names asked for, in order
    gpc,               \* position of the running get_files_urls call
    url_futures,       \* get_files_urls: the state of the task of each name
    url_results,       \* get_files_urls: results, in completion order
    urls,              \* get_files_urls: the dict object name -> URL
    url_failed_list,   \* get_files_urls: failed_list
    url_summary        \* get_files_urls: the dict it returns

urlVars == <<object_names, gpc, url_futures, url_results, urls, url_failed_list,
             url_summary>>

vars == <<sessionVars, uploadVars, ingestVars, datasetVars, decodeVars,
          recordVars, urlVars>>

(***************************************************************************)
(* Files.  A file is absent, or present with a byte sequence.              *)
(***************************************************************************)
NoFile == [ex |-> FALSE, data |-> <<>>]
File(d) == [ex |-> TRUE, data |-> d]

\* One upload is followed from start to end.  Sessions share nothing but the
\* registry, keyed by fresh uuid4 ids (upload.py:52-56); a request naming any
\* other id is a request for a session the registry does not know.
SessionIds == {1}
UnknownIds == {2}
RequestIds == SessionIds \cup UnknownIds

\* Chunk bodies a client sends: two bodies of different length.
Payloads == {<<1>>, <<2, 2>>}

\* Inputs of the handlers, drawn beyond the valid ranges on both sides.
TotalChunksInputs == (0 - 1)..MaxChunks
ChunkIndexInputs == (0 - 1)..MaxChunks
TotalSizeInputs == {max_upload_size, max_upload_size + 1}
FilenameInputs == {"data.zip", "/data.zip"}
FailPoints == (0 - 1)..MaxChunks

NoResp == [op |-> "none", sid |-> 0, idx |-> 0, status |-> "none", detail |-> "none"]
Resp(op, s, i, st, d) == [op |-> op, sid |-> s, idx |-> i, status |-> st, detail |-> d]

(***************************************************************************)
(* open(path, "wb") followed by one buffered write of `d`, flushed at      *)
(* close: the bytes land at offset 0 of whatever the file holds then.      *)
(***************************************************************************)
WriteAtStart(d, old) ==
    IF Len(old) > Len(d) THEN d \o SubSeq(old, Len(d) + 1, Len(old)) ELSE d

\* upload.py:63  os.path.join(temp_dir, filename): an absolute filename
\* replaces temp_dir, and the path then lies outside the session's directory.
JoinTempDir(filename) == IF filename = "/data.zip" THEN "outside" ELSE "inside"

RangeSeqDescending(n) == [j \in 1..(IF n > 0 THEN n ELSE 0) |-> n - j]

\* range(session["total_chunks"]) as the sequence of indices it yields.
RangeSeq(n) == [j \in 1..(IF n > 0 THEN n ELSE 0) |-> j - 1]

(***************************************************************************)
(* upload.py:157-162, the reassembly loop over `order`: read part i,       *)
(* append it to the output, safe_remove the part.  It stops with ok=FALSE  *)
(* at the first part that cannot be opened (missing, or the injected I/O   *)
(* failure at index failAt).                                               *)
(***************************************************************************)
RECURSIVE Reassemble(_, _, _, _, _)
Reassemble(order, pos, fs, out, failAt) ==
    IF pos > Len(order) THEN [ok |-> TRUE, out |-> out, fs |-> fs]
    ELSE LET i == order[pos] IN
         IF i = failAt \/ ~fs[i].ex
         THEN [ok |-> FALSE, out |-> out, fs |-> fs]
         ELSE Reassemble(order, pos + 1, [fs EXCEPT ![i] = NoFile],
                         out \o fs[i].data, failAt)

\* The except block of complete_upload, upload.py:170-173, in program order.
ExceptOrder == <<"safe_remove", "pop">>

AllChunksReceivedButOne(session) ==
    Cardinality(session.received_chunks) >= session.total_chunks - 1

\* upload.py:149, the completeness gate.
AllChunksReceived(session) ==
    Cardinality(session.received_chunks) = session.total_chunks

ValidChunkIndexInclusive(session, chunk_index) ==
    ~(chunk_index < 0 \/ chunk_index > session.total_chunks)

\* upload.py:100, the chunk index check.
ValidChunkIndex(session, chunk_index) ==
    ~(chunk_index < 0 \/ chunk_index >= session.total_chunks)

OpenKeepingContent(old) == IF old.ex THEN old ELSE File(<<>>)

\* upload.py:109  open(chunk_path, "wb") creates the file or truncates it.
OpenWb(old) == File(<<>>)

SameFile(r, s, i) == r.sid = s /\ r.idx = i

RECURSIVE SumCopies(_, _)
SumCopies(B, S) ==
    IF S = {} THEN 0
    ELSE LET x == CHOOSE y \in S : TRUE IN B[x] + SumCopies(B, S \ {x})

\* The bag B with every element x turned into f[x].
Relabel(B, f) ==
    [y \in {f[x] : x \in DOMAIN B} |-> SumCopies(B, {x \in DOMAIN B : f[x] = y})]

\* An open handle is "alone" on its file, "shared" once another request has
\* opened the same file, "orphan" once the file has been unlinked: it then
\* writes to the unlinked inode.
Share(reqs, s, i) ==
    Relabel(reqs, [r \in DOMAIN reqs |->
                      IF SameFile(r, s, i) /\ r.handle = "alone"
                      THEN [r EXCEPT !.handle = "shared"] ELSE r])

Orphan(reqs, s, idxs) ==
    Relabel(reqs, [r \in DOMAIN reqs |->
                      IF r.sid = s /\ r.idx \in idxs
                      THEN [r EXCEPT !.handle = "orphan"] ELSE r])

(***************************************************************************)
(* Initial state: empty registry, empty temp directory.                    *)
(***************************************************************************)
InitSessions ==
    /\ upload_sessions = <<>>
    /\ temp_files = <<>>
    /\ dirs = {}
    /\ parts = [s \in SessionIds |-> [i \in ChunkIndexInputs |-> NoFile]]
    /\ assembled = [s \in SessionIds |-> NoFile]
    /\ inflight = EmptyBag
    /\ cpc = "idle"
    /\ csid = 0
    /\ cerr = "none"
    /\ resp = NoResp
    /\ ingested = {}

Registered(s) == s \in DOMAIN upload_sessions
used == DOMAIN temp_files

TooLargeNever(total_size) == FALSE

\* upload.py:45  if total_size > settings.max_upload_size
TooLarge(total_size) == total_size > max_upload_size

\* upload.py:25-70  start_upload
StartUpload(filename, total_size, total_chunks) ==
    /\ UNCHANGED <<uploadVars, ingestVars, datasetVars, decodeVars, recordVars,
                   urlVars>>
    /\ UNCHANGED ingested
    /\ cpc = "idle"
    /\ used # SessionIds
    /\ IF TooLarge(total_size)
       THEN /\ resp' = Resp("start", 0, 0, "TooLarge", "none")
            /\ UNCHANGED <<upload_sessions, temp_files, dirs>>
       ELSE LET id == CHOOSE s \in SessionIds : s \notin used IN
            /\ temp_files' = [s \in used \cup {id} |->
                                IF s = id THEN JoinTempDir(filename)
                                ELSE temp_files[s]]
            /\ dirs' = dirs \cup {id}
            /\ upload_sessions' =
                 [s \in DOMAIN upload_sessions \cup {id} |->
                     IF s = id
                     THEN [total_size |-> total_size,
                           total_chunks |-> total_chunks,
                           received_chunks |-> {}]
                     ELSE upload_sessions[s]]
            /\ resp' = Resp("start", id, 0, "ok", "none")
    /\ UNCHANGED <<parts, assembled, inflight, cpc, csid, cerr>>

\* upload.py:91-95  upload_chunk on an id the registry does not hold
UploadChunkNotFound(s) ==
    /\ UNCHANGED <<uploadVars, ingestVars, datasetVars, decodeVars, recordVars,
                   urlVars>>
    /\ UNCHANGED ingested
    /\ cpc = "idle"
    /\ ~Registered(s)
    /\ resp' = Resp("chunk", s, 0, "NotFound", "none")
    /\ UNCHANGED <<upload_sessions, temp_files, dirs, parts, assembled, inflight,
                   cpc, csid, cerr>>

\* upload.py:97-104  upload_chunk on an index the check refuses
UploadChunkInvalid(s, chunk_index) ==
    /\ UNCHANGED <<uploadVars, ingestVars, datasetVars, decodeVars, recordVars,
                   urlVars>>
    /\ UNCHANGED ingested
    /\ cpc = "idle"
    /\ Registered(s)
    /\ ~ValidChunkIndex(upload_sessions[s], chunk_index)
    /\ resp' = Resp("chunk", s, chunk_index, "InvalidArgument", "none")
    /\ UNCHANGED <<upload_sessions, temp_files, dirs, parts, assembled, inflight,
                   cpc, csid, cerr>>

\* upload.py:107-110  upload_chunk up to `await file.read()`: the chunk
\* file is created or truncated, and the handler is suspended with the file
\* open and the body still to be read.
UploadChunkOpen(s, chunk_index) ==
    /\ UNCHANGED <<uploadVars, ingestVars, datasetVars, decodeVars, recordVars,
                   urlVars>>
    /\ UNCHANGED ingested
    /\ cpc = "idle"
    /\ Registered(s)
    /\ ValidChunkIndex(upload_sessions[s], chunk_index)
    /\ BagCardinality(inflight) < MaxInflight
    /\ LET overlap == \E r \in DOMAIN inflight :
                          SameFile(r, s, chunk_index) /\ r.handle # "orphan"
       IN inflight' = Share(inflight, s, chunk_index) (+)
               SetToBag({[sid |-> s, idx |-> chunk_index,
                          handle |-> IF overlap THEN "shared" ELSE "alone"]})
    /\ parts' = [parts EXCEPT ![s][chunk_index] = OpenWb(@)]
    /\ resp' = NoResp
    /\ UNCHANGED <<upload_sessions, temp_files, dirs, assembled, cpc, csid, cerr>>

\* upload.py:109 and 117-121  open(chunk_path, "wb") raises: nothing is
\* written and the handler answers 500.
UploadChunkOpenFail(s, chunk_index) ==
    /\ UNCHANGED <<uploadVars, ingestVars, datasetVars, decodeVars, recordVars,
                   urlVars>>
    /\ UNCHANGED ingested
    /\ cpc = "idle"
    /\ Registered(s)
    /\ ValidChunkIndex(upload_sessions[s], chunk_index)
    /\ resp' = Resp("chunk", s, 0, "error", "save")
    /\ UNCHANGED <<upload_sessions, temp_files, dirs, parts, assembled, inflight,
                   cpc, csid, cerr>>

\* What a successful reception was, seen from the registry before it: of an
\* index already received ("again"), of a new index below one already
\* received ("late"), or of a new index otherwise ("first").
Reception(r) ==
    IF ~Registered(r.sid) THEN "gone"
    ELSE LET got == upload_sessions[r.sid].received_chunks IN
         IF r.idx \in got THEN "again"
         ELSE IF \E j \in got : j > r.idx THEN "late"
         ELSE "first"

AddReceivedLosingOthers(received, chunk_index) == {chunk_index}

\* upload.py:113  session["received_chunks"].add(chunk_index)
AddReceived(received, chunk_index) == received \cup {chunk_index}

\* upload.py:111-115  upload_chunk resumed with the body `data` read: write,
\* close, record the index.
UploadChunkWrite(r, data) ==
    /\ UNCHANGED <<uploadVars, ingestVars, datasetVars, decodeVars, recordVars,
                   urlVars>>
    /\ UNCHANGED ingested
    /\ cpc = "idle"
    /\ r \in DOMAIN inflight
    /\ inflight' = inflight (-) SetToBag({r})
    /\ parts' = IF r.handle # "orphan"
                THEN [parts EXCEPT ![r.sid][r.idx] =
                         File(WriteAtStart(data, parts[r.sid][r.idx].data))]
                ELSE parts
    /\ upload_sessions' =
         IF Registered(r.sid)
         THEN [upload_sessions EXCEPT
                  ![r.sid].received_chunks = AddReceived(@, r.idx)]
         ELSE upload_sessions
    /\ resp' = Resp("chunk", r.sid, r.idx, "success", Reception(r))
    /\ UNCHANGED <<temp_files, dirs, assembled, cpc, csid, cerr>>

\* upload.py:117-121  upload_chunk when the read or the write raises: the
\* file stays as open() left it and the index is not recorded.
UploadChunkFail(r) ==
    /\ UNCHANGED <<uploadVars, ingestVars, datasetVars, decodeVars, recordVars,
                   urlVars>>
    /\ UNCHANGED ingested
    /\ cpc = "idle"
    /\ r \in DOMAIN inflight
    /\ inflight' = inflight (-) SetToBag({r})
    /\ resp' = Resp("chunk", r.sid, 0, "error", "save")
    /\ UNCHANGED <<upload_sessions, temp_files, dirs, parts, assembled, cpc, csid, cerr>>

\* upload.py:140-153  complete_upload on an unknown id, or on a session the
\* completeness gate stops.
CompleteUploadRefuse(s) ==
    /\ UNCHANGED <<uploadVars, ingestVars, datasetVars, decodeVars, recordVars,
                   urlVars>>
    /\ UNCHANGED ingested
    /\ cpc = "idle"
    /\ IF ~Registered(s)
       THEN resp' = Resp("complete", s, 0, "NotFound", "none")
       ELSE /\ ~AllChunksReceived(upload_sessions[s])
            /\ resp' = Resp("complete", s, 0, "Incomplete", "none")
    /\ UNCHANGED <<upload_sessions, temp_files, dirs, parts, assembled, inflight,
                   cpc, csid, cerr>>

(***************************************************************************)
(* upload.py:140-162  complete_upload past the gate, up to the call of     *)
(* process_dataset.  The handler has no suspension point, so nothing else  *)
(* runs until it returns (cpc = "idle" again).  failAt injects an I/O      *)
(* failure: -1 at open(temp_file), i at the open of part i, MaxChunks      *)
(* nowhere.                                                                *)
(***************************************************************************)
CompleteUpload(s, failAt) ==
    /\ UNCHANGED <<uploadVars, ingestVars, datasetVars, decodeVars, recordVars,
                   urlVars>>
    /\ UNCHANGED ingested
    /\ cpc = "idle"
    /\ Registered(s)
    /\ AllChunksReceived(upload_sessions[s])
    /\ failAt < upload_sessions[s].total_chunks \/ failAt = MaxChunks
    /\ IF failAt < 0
       THEN /\ cpc' = "except1"
            /\ csid' = s
            /\ cerr' = "assembly"
            /\ resp' = NoResp
            /\ UNCHANGED <<parts, assembled, inflight>>
       ELSE LET res == Reassemble(RangeSeq(upload_sessions[s].total_chunks), 1,
                                  parts[s], <<>>, failAt)
                gone == {i \in ChunkIndexInputs : parts[s][i].ex /\ ~res.fs[i].ex}
            IN /\ parts' = [parts EXCEPT ![s] = res.fs]
               /\ assembled' = [assembled EXCEPT ![s] = File(res.out)]
               /\ inflight' = Orphan(inflight, s, gone)
               /\ csid' = s
               /\ cpc' = IF res.ok THEN "process" ELSE "except1"
               /\ cerr' = IF res.ok THEN "none" ELSE "assembly"
               /\ resp' = IF res.ok THEN resp ELSE NoResp
    /\ UNCHANGED <<upload_sessions, temp_files, dirs>>

\* upload.py:165-168 and 180-242  process_dataset on the assembled file: it
\* returns or raises, and its finally block removes the file either way.  An
\* empty file is no ZIP archive: extract_zip raises on it.
ProcessDataset(ok) ==
    /\ UNCHANGED <<uploadVars, ingestVars, datasetVars, decodeVars, recordVars,
                   urlVars>>
    /\ ingested' = IF ok THEN ingested \cup {csid} ELSE ingested
    /\ cpc = "process"
    /\ ok => assembled[csid].data # <<>>
    /\ assembled' = [assembled EXCEPT ![csid] = NoFile]
    /\ IF ok
       THEN /\ cpc' = "idle"
            /\ resp' = Resp("complete", csid, 0, "ok", "none")
            /\ UNCHANGED cerr
       ELSE /\ cpc' = "except1"
            /\ cerr' = "dataset"
            /\ resp' = NoResp
    /\ UNCHANGED <<upload_sessions, temp_files, dirs, parts, inflight, csid>>

ExceptPos == IF cpc = "except1" THEN 1 ELSE 2

ExceptAdvance ==
    IF cpc = "except1"
    THEN /\ cpc' = "except2"
         /\ UNCHANGED <<resp, cerr>>
    ELSE /\ cpc' = "idle"
         /\ cerr' = "none"
         /\ resp' = Resp("complete", csid, 0, "error", cerr)

\* upload.py:172  safe_remove(session["temp_dir"]): the directory goes, with
\* the files that lie in it.
SafeRemoveTempDir ==
    /\ UNCHANGED <<uploadVars, ingestVars, datasetVars, decodeVars, recordVars,
                   urlVars>>
    /\ UNCHANGED ingested
    /\ cpc \in {"except1", "except2"}
    /\ ExceptOrder[ExceptPos] = "safe_remove"
    /\ dirs' = dirs \ {csid}
    /\ IF temp_files[csid] = "inside"
       THEN /\ parts' = [parts EXCEPT ![csid] = [i \in ChunkIndexInputs |-> NoFile]]
            /\ assembled' = [assembled EXCEPT ![csid] = NoFile]
            /\ inflight' = Orphan(inflight, csid, ChunkIndexInputs)
       ELSE UNCHANGED <<parts, assembled, inflight>>
    /\ ExceptAdvance
    /\ UNCHANGED <<upload_sessions, temp_files, csid>>

\* upload.py:173  upload_sessions.pop(upload_id, None)
PopSession ==
    /\ UNCHANGED <<uploadVars, ingestVars, datasetVars, decodeVars, recordVars,
                   urlVars>>
    /\ UNCHANGED ingested
    /\ cpc \in {"except1", "except2"}
    /\ ExceptOrder[ExceptPos] = "pop"
    /\ upload_sessions' = [s \in DOMAIN upload_sessions \ {csid} |-> upload_sessions[s]]
    /\ ExceptAdvance
    /\ UNCHANGED <<temp_files, dirs, parts, assembled, inflight, csid>>

(***************************************************************************)
(* The batch uploader, minio_service.py.                                   *)
(* An item is (file_path, object_name); the content type it carries plays  *)
(* no part in what follows.  A result is what _upload_single_file returns; *)
(* its error is 0 for None and otherwise names the exception, which is     *)
(* that of the pass the put was made in (1 for the first pass).            *)
(***************************************************************************)
Keys == {1, 2}
Item(p, k) == [file_path |-> p, object_name |-> k]
\* The lists of at most MaxItems items with the local paths 1, 2, ... and
\* object names that may repeat, the first of them named 1.
FileLists ==
    UNION {{[p \in 1..n |-> Item(p, k[p])] :
               k \in {f \in [1..n -> Keys] : n = 0 \/ f[1] = 1}} : n \in 0..MaxItems}

NoSummary == [total |-> 0 - 1, successful |-> 0 - 1, failed |-> 0 - 1]
Queued == [st |-> "queued", success |-> FALSE, error |-> 0]

upload_single_file_always_success(file_info, put_ok, e) ==
    [success |-> TRUE, file_path |-> file_info.file_path,
     object_name |-> file_info.object_name, error |-> 0]

\* minio_service.py:160-193  _upload_single_file: success is reported when
\* fput_object has returned, failure when it has raised.
upload_single_file(file_info, put_ok, e) ==
    [success |-> put_ok, file_path |-> file_info.file_path,
     object_name |-> file_info.object_name,
     error |-> IF put_ok THEN 0 ELSE e]

RECURSIVE SuccessNames(_)
\* minio_service.py:226-228  the object names of the successful results, in order
SuccessNames(rs) ==
    IF rs = <<>> THEN <<>>
    ELSE (IF Head(rs).success THEN <<Head(rs).object_name>> ELSE <<>>)
            \o SuccessNames(Tail(rs))

\* minio_service.py:232-237  the failed_list entry of a failed result
Failure(result) ==
    [file_path |-> result.file_path, object_name |-> result.object_name,
     error |-> result.error]

\* minio_service.py:337  the item a failed_list entry is retried as
ItemOf(f) == Item(f.file_path, f.object_name)

RetryEveryItem(failed) == file_list

\* minio_service.py:337  retry_file_list, built from failed_list
RetryFileList(failed) == [j \in DOMAIN failed |-> ItemOf(failed[j])]

PassCompleteOnFirstResult(futures) ==
    \E i \in DOMAIN futures : futures[i].st = "yielded"

\* minio_service.py:214-241  the as_completed loop has yielded every future
\* and the executor's with block has been left: no task of the pass is
\* queued, running or uncollected.
PassComplete(futures) == \A i \in DOMAIN futures : futures[i].st = "yielded"

FailedItemsAll(rs) == [j \in DOMAIN rs |-> Failure(rs[j])]

RECURSIVE FailedItems(_)
\* minio_service.py:230-238  the entries of the failed results, in order
FailedItems(rs) ==
    IF rs = <<>> THEN <<>>
    ELSE (IF Head(rs).success THEN <<>> ELSE <<Failure(Head(rs))>>)
            \o FailedItems(Tail(rs))

RetryAttemptUnnumbered(count, retried, success, failed) ==
    [attempt |-> 1, files_retried |-> Len(retried),
     successful |-> Len(success), failed |-> Len(failed)]

\* minio_service.py:345-350  the entry of a retry round in retry_attempts
RetryAttempt(count, retried, success, failed) ==
    [attempt |-> count, files_retried |-> Len(retried),
     successful |-> Len(success), failed |-> Len(failed)]

\* minio_service.py:315 and 351  all_results.extend(results)
BagOfResults(rs) ==
    [r \in {rs[j] : j \in DOMAIN rs} |->
        Cardinality({j \in DOMAIN rs : rs[j] = r})]

RetryLoopGuardInclusive(failed, count, limit) == failed # <<>> /\ count <= limit

\* minio_service.py:326  while failed_list and retry_count < max_retries
RetryLoopGuard(failed, count, limit) == failed # <<>> /\ count < limit

FailedAccumulated(old, new) == old \o new

\* minio_service.py:317 and 353  failed_list = failed / failed_list = retry_failed
FailedAfterPass(old, new) == new

Running == {i \in DOMAIN fut : fut[i].st = "running"}

WorkerAlwaysFree(workers) == TRUE

\* ThreadPoolExecutor(max_workers): a queued task starts only on a free worker.
WorkerFree(workers) == Cardinality(Running) < workers

UploaderIdle ==
    /\ file_list = <<>>
    /\ max_workers = 1
    /\ max_retries = 0
    /\ upc = "idle"
    /\ batch = <<>>
    /\ fut = <<>>
    /\ results = <<>>
    /\ all_results = EmptyBag
    /\ success_list = <<>>
    /\ failed_list = <<>>
    /\ retry_count = 0
    /\ retry_attempts = <<>>
    /\ summary = NoSummary
    /\ store = {}

\* minio_service.py:271-317  upload_files up to the submission of the first
\* pass: an empty list is answered at once with the zero summary.
UploadFilesBegin ==
    /\ upc = "start"
    /\ IF file_list = <<>>
       THEN /\ upc' = "done"
            /\ summary' = [total |-> 0, successful |-> 0, failed |-> 0]
            /\ UNCHANGED <<batch, fut>>
       ELSE /\ upc' = "attempt"
            /\ batch' = file_list
            /\ fut' = [i \in 1..Len(file_list) |-> Queued]
            /\ UNCHANGED summary
    /\ UNCHANGED <<file_list, max_workers, max_retries, results, all_results,
                   success_list, failed_list, retry_count, retry_attempts, store>>
    /\ UNCHANGED <<sessionVars, ingestVars, datasetVars, decodeVars, recordVars,
                   urlVars>>

\* minio_service.py:216-220  a pool thread takes the oldest queued task
WorkerTake(i) ==
    /\ upc = "attempt"
    /\ i \in DOMAIN fut
    /\ fut[i].st = "queued"
    /\ \A j \in DOMAIN fut : j < i => fut[j].st # "queued"
    /\ WorkerFree(max_workers)
    /\ fut' = [fut EXCEPT ![i].st = "running"]
    /\ UNCHANGED <<file_list, max_workers, max_retries, upc, batch, results,
                   all_results, success_list, failed_list, retry_count,
                   retry_attempts, summary, store>>
    /\ UNCHANGED <<sessionVars, ingestVars, datasetVars, decodeVars, recordVars,
                   urlVars>>

\* minio_service.py:171-193  fput_object returns (the object is in the bucket)
\* or raises, and the task ends with the result _upload_single_file builds.
FputObject(i, put_ok) ==
    /\ upc = "attempt"
    /\ i \in DOMAIN fut
    /\ fut[i].st = "running"
    /\ store' = IF put_ok THEN store \cup {batch[i]} ELSE store
    /\ LET result == upload_single_file(batch[i], put_ok, retry_count + 1)
       IN fut' = [fut EXCEPT ![i] =
                    [st |-> "finished", success |-> result.success,
                     error |-> result.error]]
    /\ UNCHANGED <<file_list, max_workers, max_retries, upc, batch, results,
                   all_results, success_list, failed_list, retry_count,
                   retry_attempts, summary>>
    /\ UNCHANGED <<sessionVars, ingestVars, datasetVars, decodeVars, recordVars,
                   urlVars>>

\* minio_service.py:223-225  as_completed yields a finished future
AsCompleted(i) ==
    /\ upc = "attempt"
    /\ i \in DOMAIN fut
    /\ fut[i].st = "finished"
    /\ fut' = [fut EXCEPT ![i].st = "yielded"]
    /\ results' = Append(results,
                     [success |-> fut[i].success,
                      file_path |-> batch[i].file_path,
                      object_name |-> batch[i].object_name,
                      error |-> fut[i].error])
    /\ UNCHANGED <<file_list, max_workers, max_retries, upc, batch,
                   all_results, success_list, failed_list, retry_count,
                   retry_attempts, summary, store>>
    /\ UNCHANGED <<sessionVars, ingestVars, datasetVars, decodeVars, recordVars,
                   urlVars>>

\* minio_service.py:241, 314-317 and 338-353  _batch_upload_attempt returns
\* once every future has been yielded, and upload_files merges its lists.
BatchUploadReturn ==
    /\ upc = "attempt"
    /\ PassComplete(fut)
    /\ LET success == SuccessNames(results)
           failed == FailedItems(results)
       IN /\ all_results' = all_results (+) BagOfResults(results)
          /\ success_list' = success_list \o success
          /\ failed_list' = FailedAfterPass(failed_list, failed)
          /\ retry_attempts' =
                IF retry_count > 0
                THEN Append(retry_attempts,
                            RetryAttempt(retry_count, batch, success, failed))
                ELSE retry_attempts
    /\ upc' = "loop"
    /\ batch' = <<>>
    /\ fut' = <<>>
    /\ results' = <<>>
    /\ UNCHANGED <<file_list, max_workers, max_retries, retry_count, summary, store>>
    /\ UNCHANGED <<sessionVars, ingestVars, datasetVars, decodeVars, recordVars,
                   urlVars>>

\* minio_service.py:326-334 and 364-380  the loop test: one more round
\* (retry_count += 1, then time.sleep), or the summary is built and returned.
RetryLoop ==
    /\ upc = "loop"
    /\ IF RetryLoopGuard(failed_list, retry_count, max_retries)
       THEN /\ retry_count' = retry_count + 1
            /\ upc' = "sleep"
            /\ UNCHANGED summary
       ELSE /\ upc' = "done"
            /\ summary' = [total |-> Len(file_list),
                           successful |-> Len(success_list),
                           failed |-> Len(failed_list)]
            /\ UNCHANGED retry_count
    /\ UNCHANGED <<file_list, max_workers, max_retries, batch, fut, results,
                   all_results, success_list, failed_list, retry_attempts, store>>
    /\ UNCHANGED <<sessionVars, ingestVars, datasetVars, decodeVars, recordVars,
                   urlVars>>

\* minio_service.py:334-343  time.sleep returns and the failed items are
\* submitted again.
RetryDispatch ==
    /\ upc = "sleep"
    /\ upc' = "attempt"
    /\ batch' = RetryFileList(failed_list)
    /\ fut' = [i \in DOMAIN RetryFileList(failed_list) |-> Queued]
    /\ UNCHANGED <<file_list, max_workers, max_retries, results, all_results,
                   success_list, failed_list, retry_count, retry_attempts,
                   summary, store>>
    /\ UNCHANGED <<sessionVars, ingestVars, datasetVars, decodeVars, recordVars,
                   urlVars>>

(***************************************************************************)
(* The ingestion of one split, upload_service.py process_split (the        *)
(* importer script's process_split, init_dataset.py:198-343, is the same   *)
(* code).  Image file i has the local path i, the byte size FileSize(i),   *)
(* AnnotationCount(i) decoded annotations and the storage key MinioPath(i):*)
(* file names in one directory differ, and so do the keys built from them. *)
(***************************************************************************)
FileSize(i) == i
AnnotationCount(i) == i - 1

\* upload_service.py:275-277  minio_file_path, built from the file name
MinioPath(i) == i

SplitDirs == {"both", "no_images", "no_labels"}
PrepareOutcomes == {"ok", "raise"}
NoSplitResult == [image_count |-> 0 - 1, annotation_count |-> 0 - 1,
                  total_file_size |-> 0 - 1]

\* upload_service.py:295-315  the candidate image document of image file i
ImageDoc(i) == [file_path |-> MinioPath(i), file_size |-> FileSize(i),
                annotation_count |-> AnnotationCount(i)]

InsertEveryCandidate(image, successful_paths) == TRUE

\* upload_service.py:350  if image["file_path"] in successful_paths
UploadConfirmed(image, successful_paths) == image.file_path \in successful_paths

SeqRange(s) == {s[j] : j \in DOMAIN s}

CountDocuments(docs) == Len(docs)

RECURSIVE SumAnnotations(_)
\* upload_service.py:352  annotation_count += len(image["annotations"])
SumAnnotations(docs) ==
    IF docs = <<>> THEN 0
    ELSE Head(docs).annotation_count + SumAnnotations(Tail(docs))

\* image_service.bulk_save_images: stores the documents it is given and
\* returns how many it stored.
BulkSaveImages(collection, docs) ==
    [collection |-> collection \cup SeqRange(docs), inserted_count |-> Len(docs)]

IngestIdle ==
    /\ ipc = "none"
    /\ split_dirs = "both"
    /\ image_files = <<>>
    /\ next_image = 1
    /\ upload_list = <<>>
    /\ image_doc_list = <<>>
    /\ total_file_size = 0
    /\ images = {}
    /\ split_result = NoSplitResult

\* upload_service.py:221-242  process_split up to the prepare loop: a missing
\* images or labels directory ends the call with (0, 0, 0).
ProcessSplitBegin ==
    /\ ipc = "start"
    /\ IF split_dirs # "both"
       THEN /\ ipc' = "returned"
            /\ split_result' = [image_count |-> 0, annotation_count |-> 0,
                                total_file_size |-> 0]
       ELSE /\ ipc' = "prepare"
            /\ UNCHANGED split_result
    /\ UNCHANGED <<split_dirs, image_files, next_image, upload_list,
                   image_doc_list, total_file_size, images>>
    /\ UNCHANGED <<sessionVars, uploadVars, datasetVars, decodeVars, recordVars,
                   urlVars>>

LastSizeOnly(total, file_size) == file_size

\* upload_service.py:257  total_file_size += file_size
AccumulateSize(total, file_size) == total + file_size

\* upload_service.py:249-320  one turn of the prepare loop.  An exception
\* skips the image (316-320).  It is raised by _get_image_info, stat or the
\* hash of an unreadable file (252-254), before the size is added: past that
\* line parse_annotations catches what its decoding raises
\* (yolo_validator.py:272) and the ids are those of the dataset just created.
PrepareImage(outcome) ==
    /\ ipc = "prepare"
    /\ next_image <= Len(image_files)
    /\ LET i == image_files[next_image] IN
       /\ total_file_size' = IF outcome = "ok"
                             THEN AccumulateSize(total_file_size, FileSize(i))
                             ELSE total_file_size
       /\ upload_list' = IF outcome = "ok"
                         THEN Append(upload_list, Item(i, MinioPath(i)))
                         ELSE upload_list
       /\ image_doc_list' = IF outcome = "ok"
                            THEN Append(image_doc_list, ImageDoc(i))
                            ELSE image_doc_list
    /\ next_image' = next_image + 1
    /\ UNCHANGED <<ipc, split_dirs, image_files, images, split_result>>
    /\ UNCHANGED <<sessionVars, uploadVars, datasetVars, decodeVars, recordVars,
                   urlVars>>

\* upload_service.py:326-331  minio_service.upload_files(upload_list,
\* max_workers=15, max_retries=3, retry_delay=1.0)
CallUploadFiles ==
    /\ ipc = "prepare"
    /\ next_image > Len(image_files)
    /\ upc = "idle"
    /\ ipc' = "upload"
    /\ upc' = "start"
    /\ file_list' = upload_list
    /\ max_workers' = split_max_workers
    /\ max_retries' = split_max_retries
    /\ UNCHANGED <<batch, fut, results, all_results, success_list, failed_list,
                   retry_count, retry_attempts, summary, store>>
    /\ UNCHANGED <<split_dirs, image_files, next_image, upload_list,
                   image_doc_list, total_file_size, images, split_result>>
    /\ UNCHANGED <<sessionVars, datasetVars, decodeVars, recordVars, urlVars>>

\* upload_service.py:343-376  phase 3: the documents whose key upload_files
\* reported in success_list are inserted, and the counts are returned.
InsertConfirmed ==
    /\ ipc = "upload"
    /\ upc = "done"
    /\ LET successful_paths == SeqRange(success_list)
           images_to_insert ==
               SelectSeq(image_doc_list,
                         LAMBDA image : UploadConfirmed(image, successful_paths))
           saved == BulkSaveImages(images, images_to_insert)
       IN /\ images' = IF images_to_insert # <<>> THEN saved.collection ELSE images
          /\ split_result' =
                [image_count |-> IF images_to_insert # <<>>
                                 THEN saved.inserted_count ELSE 0,
                 annotation_count |-> SumAnnotations(images_to_insert),
                 total_file_size |-> total_file_size]
    /\ ipc' = "returned"
    /\ UNCHANGED <<split_dirs, image_files, next_image, upload_list,
                   image_doc_list, total_file_size>>
    /\ UNCHANGED <<sessionVars, uploadVars, datasetVars, decodeVars, recordVars,
                   urlVars>>

(***************************************************************************)
(* The datasets collection and the ingestion coordinators:                 *)
(* UploadService.process_dataset (upload_service.py:31-166) and            *)
(* YOLODatasetImporter.import_dataset (init_dataset.py:374-420), with the  *)
(* dataset creation endpoint (api/datasets.py:19-88).                      *)
(***************************************************************************)
DatasetNames == {"a", "b"}
Flows == {"service", "importer"}

\* A dataset document: the fields the coordinators and the endpoint write.
DatasetDoc(name, status) ==
    [name |-> name, status |-> status, error_message |-> "",
     stats_written |-> FALSE]

\* upload_service.py:129-151 / init_dataset.py:388-391  the splits a
\* coordinator processes, in program order.
SplitOrder(f) ==
    IF f = "service" THEN <<"train", "val", "test">> ELSE <<"train", "val">>

SameName(name) == {d \in DOMAIN datasets : datasets[d].name = name}

\* insert_one: refused with DuplicateKeyError by a unique index on name.
DuplicateKey(coll, name) ==
    name_index /\ \E d \in DOMAIN coll : coll[d].name = name

InsertOne(coll, id, doc) ==
    [d \in DOMAIN coll \cup {id} |-> IF d = id THEN doc ELSE coll[d]]

DeleteOne(coll, id) == [d \in DOMAIN coll \ {id} |-> coll[d]]

\* api/datasets.py:79-88  what the endpoint answers when create_dataset
\* raises: an HTTPException goes through, anything else becomes a 500.
CreateFailureStatus(exc) ==
    IF exc = "HTTPException" THEN "BadRequest" ELSE "InternalError"

\* upload_service.py:153-164 against dataset_service.py:111-112, and
\* init_dataset.py:394-397 against 345-346: the positional arguments the
\* coordinator passes to update_dataset_stats and those the method takes.
StatsArgsPassed(f) == IF f = "service" THEN 10 ELSE 6
StatsArgsTaken(f) == IF f = "service" THEN 4 ELSE 6

\* dataset_service.py:125-135 / init_dataset.py:350-365  the $set of
\* update_dataset_stats.
StatsUpdate(f, doc) ==
    IF f = "importer"
    THEN [doc EXCEPT !.stats_written = TRUE, !.status = "active"]
    ELSE [doc EXCEPT !.stats_written = TRUE]

DatasetIdle ==
    /\ datasets = <<>>
    /\ name_index = FALSE
    /\ ids_issued = 0
    /\ jpc = "idle"
    /\ flow = "service"
    /\ job_name = "a"
    /\ dataset_id = 0
    /\ job_outcome = "none"
    /\ splits_done = <<>>
    /\ missing_splits = {}
    /\ create_resp = "none"

DecodeIdle ==
    /\ label_file = NoFile
    /\ decode_type = "detect"
    /\ decoded = <<>>
    /\ kpc = "idle"
    /\ root_listing = {}
    /\ inferred = "none"

\* api/datasets.py:19-88  POST /datasets
CreateDatasetApi(name, type_valid) ==
    /\ UNCHANGED <<sessionVars, uploadVars, ingestVars, decodeVars, recordVars,
                   urlVars>>
    /\ ids_issued < MaxDatasets
    /\ IF ~type_valid
       THEN /\ create_resp' = CreateFailureStatus("HTTPException")
            /\ UNCHANGED <<datasets, ids_issued>>
       ELSE IF DuplicateKey(datasets, name)
       THEN /\ create_resp' = CreateFailureStatus("ValueError")
            /\ UNCHANGED <<datasets, ids_issued>>
       ELSE /\ datasets' = InsertOne(datasets, ids_issued + 1,
                                     DatasetDoc(name, "active"))
            /\ ids_issued' = ids_issued + 1
            /\ create_resp' = "Created"
    /\ UNCHANGED <<name_index, jpc, flow, job_name, dataset_id, job_outcome,
                   splits_done, missing_splits>>

\* upload_service.py:31-48 / init_dataset.py:374-380  an ingestion starts
IngestBegin(f, name) ==
    /\ UNCHANGED <<sessionVars, uploadVars, ingestVars, decodeVars, recordVars,
                   urlVars>>
    /\ jpc \in {"idle", "ended"}
    /\ jpc' = "descriptor"
    /\ flow' = f
    /\ job_name' = name
    /\ dataset_id' = 0
    /\ job_outcome' = "none"
    /\ splits_done' = <<>>
    /\ missing_splits' = {}
    /\ UNCHANGED <<datasets, name_index, ids_issued, create_resp>>

\* An exception leaves the coordinator.  process_dataset has no handler
\* (upload_service.py:105-108: its finally block does nothing); the
\* importer's handler (init_dataset.py:403-417) marks the record it created,
\* if it had created one, and re-raises.
IngestRaises ==
    /\ jpc' = "ended"
    /\ job_outcome' = "failure"
    /\ datasets' =
         IF flow = "importer" /\ dataset_id # 0 /\ dataset_id \in DOMAIN datasets
         THEN [datasets EXCEPT ![dataset_id].status = "error",
                               ![dataset_id].error_message = "captured"]
         ELSE datasets

\* upload_service.py:52-70 / init_dataset.py:117-132  the descriptor is
\* found, parsed and validated, or an exception is raised (no descriptor,
\* malformed YAML, validation failure).
LoadDescriptor(ok) ==
    /\ UNCHANGED <<sessionVars, uploadVars, ingestVars, decodeVars, recordVars,
                   urlVars>>
    /\ jpc = "descriptor"
    /\ IF ok
       THEN jpc' = "create" /\ UNCHANGED <<datasets, job_outcome>>
       ELSE IngestRaises
    /\ UNCHANGED <<name_index, ids_issued, flow, job_name, dataset_id,
                   splits_done, missing_splits, create_resp>>

\* upload_service.py:72-90 with dataset_service.py:23-64, and
\* init_dataset.py:155-196: the record is created in status "processing".
\* The importer first deletes a dataset of the same name.
CreateRecord ==
    /\ UNCHANGED <<sessionVars, uploadVars, ingestVars, decodeVars, recordVars,
                   urlVars>>
    /\ jpc = "create"
    /\ ids_issued < MaxDatasets
    /\ LET existing == SameName(job_name)
           kept == IF flow = "importer" /\ existing # {}
                   THEN DeleteOne(datasets,
                                  CHOOSE d \in existing : \A e \in existing : d <= e)
                   ELSE datasets
       IN IF DuplicateKey(kept, job_name)
          THEN /\ jpc' = "ended"
               /\ job_outcome' = "failure"
               /\ datasets' = kept
               /\ UNCHANGED <<ids_issued, dataset_id>>
          ELSE /\ datasets' = InsertOne(kept, ids_issued + 1,
                                        DatasetDoc(job_name, "processing"))
               /\ ids_issued' = ids_issued + 1
               /\ dataset_id' = ids_issued + 1
               /\ jpc' = "split"
               /\ UNCHANGED job_outcome
    /\ UNCHANGED <<name_index, flow, job_name, splits_done, missing_splits,
                   create_resp>>

\* upload_service.py:221-231 / init_dataset.py:208-213  what process_split
\* does on the directories of its split: with images/<split> missing (for
\* the service, or labels/<split>) it returns 0, 0, 0 at once; otherwise it
\* goes through the images and returns their counts, or raises.
SplitOutcomes(f, directories) ==
    IF directories = "no_images" \/ (f = "service" /\ directories = "no_labels")
    THEN {"zeros"}
    ELSE {"counts", "raises"}

\* upload_service.py:129-151 / init_dataset.py:388-391  the next split:
\* process_split returns its counts, or raises.
ProcessNextSplit(directories, outcome) ==
    /\ UNCHANGED <<sessionVars, uploadVars, ingestVars, decodeVars, recordVars,
                   urlVars>>
    /\ jpc = "split"
    /\ Len(splits_done) < Len(SplitOrder(flow))
    /\ outcome \in SplitOutcomes(flow, directories)
    /\ IF outcome # "raises"
       THEN /\ splits_done' =
                 Append(splits_done, SplitOrder(flow)[Len(splits_done) + 1])
            /\ missing_splits' =
                 IF outcome = "zeros"
                 THEN missing_splits \cup {SplitOrder(flow)[Len(splits_done) + 1]}
                 ELSE missing_splits
            /\ UNCHANGED <<datasets, jpc, job_outcome>>
       ELSE IngestRaises /\ UNCHANGED <<splits_done, missing_splits>>
    /\ UNCHANGED <<name_index, ids_issued, flow, job_name, dataset_id, create_resp>>

\* upload_service.py:153-166 / init_dataset.py:393-401  update_dataset_stats
\* is called with the counters of the splits; a call whose arguments do not
\* fit the method raises TypeError.
UpdateDatasetStats ==
    /\ UNCHANGED <<sessionVars, uploadVars, ingestVars, decodeVars, recordVars,
                   urlVars>>
    /\ jpc = "split"
    /\ splits_done = SplitOrder(flow)
    /\ IF StatsArgsPassed(flow) = StatsArgsTaken(flow)
       THEN /\ datasets' = [datasets EXCEPT ![dataset_id] = StatsUpdate(flow, @)]
            /\ jpc' = "ended"
            /\ job_outcome' = "success"
       ELSE IngestRaises
    /\ UNCHANGED <<name_index, ids_issued, flow, job_name, dataset_id,
                   splits_done, missing_splits, create_resp>>

(***************************************************************************)
(* The label decoder, YOLOValidator.parse_annotations                      *)
(* (utils/yolo_validator.py:156-276).  A line is the sequence of its       *)
(* whitespace-separated tokens, a blank line the empty sequence.  Numbers  *)
(* are counted in tenths: the token "0.5" is the float 5/10.               *)
(***************************************************************************)
Tokens == {"-3", "-1", "0", "1", "2", "0.5", "1.5", "x"}

\* int(token): the integer literals parse; "0.5", "1.5" and "x" raise
\* ValueError.
ParseInt(token) ==
    IF token = "-3" THEN [raised |-> FALSE, value |-> 0 - 3]
    ELSE IF token = "-1" THEN [raised |-> FALSE, value |-> 0 - 1]
    ELSE IF token = "0" THEN [raised |-> FALSE, value |-> 0]
    ELSE IF token = "1" THEN [raised |-> FALSE, value |-> 1]
    ELSE IF token = "2" THEN [raised |-> FALSE, value |-> 2]
    ELSE [raised |-> TRUE, value |-> 0]

\* float(token), in tenths: "x" raises ValueError.
ParseFloat(token) ==
    IF token = "0.5" THEN [raised |-> FALSE, value |-> 5]
    ELSE IF token = "1.5" THEN [raised |-> FALSE, value |-> 15]
    ELSE IF ~ParseInt(token).raised
    THEN [raised |-> FALSE, value |-> 10 * ParseInt(token).value]
    ELSE [raised |-> TRUE, value |-> 0]

\* [float(x) for x in tokens]
FloatsRaise(tokens) == \E j \in DOMAIN tokens : ParseFloat(tokens[j]).raised
Floats(tokens) == [j \in DOMAIN tokens |-> ParseFloat(tokens[j]).value]

ClassNames == <<"c0", "c1">>

\* f"class_{class_id}"
ClassLabel(class_id) ==
    IF class_id = 0 - 3 THEN "class_-3"
    ELSE IF class_id = 0 - 1 THEN "class_-1"
    ELSE IF class_id = 0 THEN "class_0"
    ELSE IF class_id = 1 THEN "class_1"
    ELSE "class_2"

\* class_names[class_id] of a Python list: a negative index counts from the
\* end, and an index below -len raises IndexError.
ListIndex(list, index) ==
    IF index >= 0 THEN [raised |-> FALSE, value |-> list[index + 1]]
    ELSE IF index >= 0 - Len(list)
    THEN [raised |-> FALSE, value |-> list[Len(list) + index + 1]]
    ELSE [raised |-> TRUE, value |-> "none"]

\* yolo_validator.py:186  the class name of a class id
ClassName(class_id) ==
    IF class_id < Len(ClassNames) THEN ListIndex(ClassNames, class_id)
    ELSE [raised |-> FALSE, value |-> ClassLabel(class_id)]

DatasetTypes == {"detect", "obb", "segment", "pose", "classify"}

Annotation(type, class_id, values) ==
    [annotation_type |-> type, class_id |-> class_id,
     class_name |-> ClassName(class_id).value, values |-> values]

\* yolo_validator.py:188-270  the coordinate tokens a line of the type
\* yields an annotation from; a line with too few tokens yields none.
CoordinateTokens(line_parts, type) ==
    IF type = "detect"
    THEN (IF Len(line_parts) >= 5 THEN SubSeq(line_parts, 2, 5) ELSE <<>>)
    ELSE IF type = "obb"
    THEN (IF Len(line_parts) >= 9 THEN SubSeq(line_parts, 2, 9) ELSE <<>>)
    ELSE IF type \in {"segment", "pose"}
    THEN (IF Len(line_parts) > 1 THEN SubSeq(line_parts, 2, Len(line_parts)) ELSE <<>>)
    ELSE <<>>

YieldsAnyLength(line_parts, type) == type \in DatasetTypes

\* yolo_validator.py:188-258  whether a line of the type yields an annotation
Yields(line_parts, type) ==
    IF type = "detect" THEN Len(line_parts) >= 5
    ELSE IF type = "obb" THEN Len(line_parts) >= 9
    ELSE IF type \in {"segment", "pose"} THEN Len(line_parts) > 1
    ELSE type = "classify"

\* yolo_validator.py:181-270  one non-blank line: the class id is parsed,
\* then the class name is looked up, then the coordinates; each may raise.
DecodeLine(line_parts, type) ==
    IF ParseInt(line_parts[1]).raised THEN [raised |-> TRUE, annotations |-> <<>>]
    ELSE IF ClassName(ParseInt(line_parts[1]).value).raised
    THEN [raised |-> TRUE, annotations |-> <<>>]
    ELSE IF ~Yields(line_parts, type) THEN [raised |-> FALSE, annotations |-> <<>>]
    ELSE IF FloatsRaise(CoordinateTokens(line_parts, type))
    THEN [raised |-> TRUE, annotations |-> <<>>]
    ELSE [raised |-> FALSE,
          annotations |-> <<Annotation(type, ParseInt(line_parts[1]).value,
                                       Floats(CoordinateTokens(line_parts, type)))>>]

RECURSIVE DecodeFrom(_, _, _, _)
\* yolo_validator.py:176-273  the loop over the lines, inside the try block
\* of the function: an exception on a line leaves the loop, and the
\* annotations appended before it are what is returned.
DecodeFrom(lines, pos, annotations, type) ==
    IF pos > Len(lines) THEN annotations
    ELSE IF lines[pos] = <<>> THEN DecodeFrom(lines, pos + 1, annotations, type)
    ELSE LET line == DecodeLine(lines[pos], type) IN
         IF line.raised THEN annotations
         ELSE DecodeFrom(lines, pos + 1, annotations \o line.annotations, type)

\* yolo_validator.py:170-276  parse_annotations: a label file that cannot
\* be opened gives no annotation (the open is inside the try block).
ParseAnnotationsResult(file, type) ==
    IF ~file.ex THEN <<>> ELSE DecodeFrom(file.data, 1, <<>>, type)

\* The lines label files are made of.
LabelLines ==
    {<<>>,
     <<"0", "0.5", "0.5", "0.5", "0.5">>,
     <<"0", "1.5", "0.5", "0.5", "0.5">>,
     <<"0", "x", "0.5", "0.5", "0.5">>,
     <<"x", "0.5", "0.5", "0.5", "0.5">>,
     <<"0", "0.5", "0.5", "0.5">>,
     <<"0", "0.5", "0.5">>,
     <<"0", "0.5", "0.5", "0.5", "0.5", "0.5", "0.5", "0.5", "0.5">>,
     <<"0", "0.5", "0.5", "0.5", "0.5", "0.5", "0.5", "0.5">>,
     <<"-3", "0.5", "0.5", "0.5", "0.5">>,
     <<"-1", "0.5", "0.5", "0.5", "0.5">>,
     <<"1", "0.5", "0.5", "0.5", "0.5">>,
     <<"2", "0.5", "0.5", "0.5", "0.5">>}

\* The dataset types a caller passes: the five known ones and one other.
DecodeTypeInputs == DatasetTypes \cup {"keypoint"}

LabelFiles ==
    {NoFile} \cup
    {File(lines) : lines \in UNION {[1..n -> LabelLines] : n \in 0..MaxLines}}

\* upload_service.py:263-267  annotations = yolo_validator.parse_annotations(...)
ParseAnnotations ==
    /\ UNCHANGED <<sessionVars, uploadVars, ingestVars, datasetVars, recordVars,
                   urlVars>>
    /\ kpc = "called"
    /\ decoded' = ParseAnnotationsResult(label_file, decode_type)
    /\ kpc' = "returned"
    /\ UNCHANGED <<label_file, decode_type, root_listing, inferred>>

(***************************************************************************)
(* Type inference, YOLOValidator.get_dataset_type                          *)
(* (utils/yolo_validator.py:83-155), from the entries of the dataset root. *)
(***************************************************************************)
RootEntries ==
    {"images", "OBB", "rbox_pose", "classification", "masks", "Segments",
     "keypoints.json"}

\* pattern in f.lower()
LowerContains(f, pattern) ==
    \/ f = "OBB" /\ pattern = "obb"
    \/ f = "rbox_pose" /\ pattern \in {"rbox", "pose"}
    \/ f = "classification" /\ pattern = "classification"
    \/ f = "keypoints.json" /\ pattern = "keypoints"

\* yolo_validator.py:128-135
HasObbAnnotations(listing) ==
    \E pattern \in {"obb", "rotated", "rbox"} :
        \E f \in listing : LowerContains(f, pattern)

\* yolo_validator.py:119-126
HasClassifyAnnotations(listing) ==
    \E pattern \in {"classify", "classification"} :
        \E f \in listing : LowerContains(f, pattern)

\* yolo_validator.py:137-145  os.path.exists(join(root, seg_dir)): the exact
\* name, in its case
HasSegmentationAnnotations(listing) ==
    \E seg_dir \in {"segments", "masks", "polygons"} : seg_dir \in listing

\* yolo_validator.py:147-154
HasPoseAnnotations(listing) ==
    \E pattern \in {"keypoints", "pose", "skeleton"} :
        \E f \in listing : LowerContains(f, pattern)

get_dataset_type_pose_first(listing) ==
    IF HasPoseAnnotations(listing) THEN "pose"
    ELSE IF HasObbAnnotations(listing) THEN "obb"
    ELSE IF HasClassifyAnnotations(listing) THEN "classify"
    ELSE IF HasSegmentationAnnotations(listing) THEN "segment"
    ELSE "detect"

\* yolo_validator.py:83-117
get_dataset_type(listing) ==
    IF HasObbAnnotations(listing) THEN "obb"
    ELSE IF HasClassifyAnnotations(listing) THEN "classify"
    ELSE IF HasSegmentationAnnotations(listing) THEN "segment"
    ELSE IF HasPoseAnnotations(listing) THEN "pose"
    ELSE "detect"

\* api/upload.py:211  dataset_type = yolo_validator.get_dataset_type(dataset_root)
GetDatasetType ==
    /\ UNCHANGED <<sessionVars, uploadVars, ingestVars, datasetVars, recordVars,
                   urlVars>>
    /\ inferred = "none"
    /\ inferred' = get_dataset_type(root_listing)
    /\ UNCHANGED <<label_file, decode_type, decoded, kpc, root_listing>>

(***************************************************************************)
(* The counters of the stored records: the dataset record and its image    *)
(* records as the importer writes them (scripts/init_dataset.py), and as   *)
(* AnnotationService rewrites them (services/annotation_service.py).  An   *)
(* image record carries the length of its embedded annotation list.        *)
(***************************************************************************)
\* A caller that is in no call.
NoCall == [pc |-> "idle", image_id |-> 0, count |-> 0]

\* Before the importer runs: no record, nothing counted.
RecordsIdle ==
    /\ image_records = {}
    /\ annotation_docs = {}
    /\ annotations_issued = 0
    /\ dataset_record = [exists |-> FALSE, num_images |-> 0,
                         num_annotations |-> 0, splits |-> <<>>]
    /\ rpc = "start"
    /\ split_counts = [s \in {"train", "val"} |-> [images |-> 0, annotations |-> 0]]
    /\ calls = [c \in 1..MaxCalls |-> NoCall]
    /\ touched = {}

\* init_dataset.py:262-291  the image document of an image whose label file
\* decoded to n annotations
ImageRecord(id, split_name, n) ==
    [id |-> id, split |-> split_name, annotations |-> n,
     is_annotated |-> n > 0, annotation_count |-> n]

\* init_dataset.py:155-196  create_dataset
ImporterCreateRecord ==
    /\ UNCHANGED <<sessionVars, uploadVars, ingestVars, datasetVars, decodeVars,
                   urlVars>>
    /\ rpc = "start"
    /\ dataset_record' =
           [exists |-> TRUE, num_images |-> 0, num_annotations |-> 0,
            splits |-> [s \in {"train", "val"} |-> 0]]
    /\ rpc' = "train"
    /\ UNCHANGED <<image_records, annotation_docs, annotations_issued, split_counts,
                   calls, touched>>

\* init_dataset.py:197-343  process_split(split_name): the documents of the
\* images whose upload was confirmed are inserted; lens are the lengths of
\* their annotation lists.
ImporterProcessSplit(lens) ==
    /\ UNCHANGED <<sessionVars, uploadVars, ingestVars, datasetVars, decodeVars,
                   urlVars>>
    /\ rpc \in {"train", "val"}
    /\ LET first == Cardinality(image_records)
           images_to_insert ==
               [j \in DOMAIN lens |-> ImageRecord(first + j, rpc, lens[j])]
           saved == BulkSaveImages(image_records, images_to_insert)
       IN /\ image_records' =
                IF images_to_insert # <<>> THEN saved.collection ELSE image_records
          /\ split_counts' =
                [split_counts EXCEPT ![rpc] =
                    [images |-> IF images_to_insert # <<>>
                                THEN saved.inserted_count ELSE 0,
                     annotations |-> SumAnnotations(images_to_insert)]]
    /\ rpc' = IF rpc = "train" THEN "val" ELSE "stats"
    /\ UNCHANGED <<annotation_docs, annotations_issued, dataset_record, calls,
                   touched>>

\* init_dataset.py:345-365  update_dataset_stats
ImporterUpdateStats ==
    /\ UNCHANGED <<sessionVars, uploadVars, ingestVars, datasetVars, decodeVars,
                   urlVars>>
    /\ rpc = "stats"
    /\ dataset_record' =
           [dataset_record EXCEPT
               !.num_images = split_counts["train"].images
                                + split_counts["val"].images,
               !.num_annotations = split_counts["train"].annotations
                                     + split_counts["val"].annotations,
               !.splits = [s \in {"train", "val"} |-> split_counts[s].images]]
    /\ rpc' = "done"
    /\ UNCHANGED <<image_records, annotation_docs, annotations_issued, split_counts,
                   calls, touched>>

\* annotation_service.py:324 and 342  count_documents on the annotations
\* collection: the documents that name the image, or all of the dataset's.
count_documents(docs, image_id) ==
    Cardinality({a \in docs : image_id = 0 \/ a.image_id = image_id})

\* annotation_service.py:326-333  the update_one of
\* _update_image_annotation_count: the image record gets the count read.
UpdateImageAnnotationCount(records, image_id, count) ==
    {IF image.id = image_id
     THEN [image EXCEPT !.annotation_count = count,
                        !.is_annotated = count > 0]
     ELSE image : image \in records}

\* annotation_service.py:344-350  the update_one of
\* _update_dataset_annotation_stats: the dataset record gets the count read.
UpdateDatasetAnnotationStats(record, count) ==
    IF record.exists
    THEN [record EXCEPT !.num_annotations = count]
    ELSE record

\* The caller a new call runs on: the first that is in no call.
FreeCaller == CHOOSE c \in 1..MaxCalls :
                 calls[c].pc = "idle" /\ \A d \in 1..(c - 1) : calls[d].pc # "idle"

\* annotation_service.py:25-52  create_annotation up to insert_one
CreateAnnotation(image_id) ==
    /\ UNCHANGED <<sessionVars, uploadVars, ingestVars, datasetVars, decodeVars,
                   urlVars>>
    /\ annotations_issued < MaxAnnotations
    /\ \E c \in 1..MaxCalls : calls[c].pc = "idle"
    /\ annotations_issued' = annotations_issued + 1
    /\ annotation_docs' =
           annotation_docs \cup {[id |-> annotations_issued + 1,
                                  image_id |-> image_id]}
    /\ calls' = [calls EXCEPT ![FreeCaller] =
                    [pc |-> "count_image", image_id |-> image_id, count |-> 0]]
    /\ touched' = touched \cup {image_id}
    /\ UNCHANGED <<image_records, dataset_record, rpc, split_counts>>

\* annotation_service.py:158-180  delete_annotation of a stored annotation,
\* up to delete_one
DeleteAnnotation(annotation) ==
    /\ UNCHANGED <<sessionVars, uploadVars, ingestVars, datasetVars, decodeVars,
                   urlVars>>
    /\ annotation \in annotation_docs
    /\ \E c \in 1..MaxCalls : calls[c].pc = "idle"
    /\ annotation_docs' = annotation_docs \ {annotation}
    /\ calls' = [calls EXCEPT ![FreeCaller] =
                    [pc |-> "count_image", image_id |-> annotation.image_id,
                     count |-> 0]]
    /\ touched' = touched \cup {annotation.image_id}
    /\ UNCHANGED <<image_records, annotations_issued, dataset_record, rpc,
                   split_counts>>

\* annotation_service.py:324  count = count_documents({"image_id": image_id})
CountImageAnnotations(c) ==
    /\ UNCHANGED <<sessionVars, uploadVars, ingestVars, datasetVars, decodeVars,
                   urlVars>>
    /\ calls[c].pc = "count_image"
    /\ calls' = [calls EXCEPT
                    ![c].pc = "update_image",
                    ![c].count = count_documents(annotation_docs, calls[c].image_id)]
    /\ UNCHANGED <<image_records, annotation_docs, annotations_issued,
                   dataset_record, rpc, split_counts, touched>>

\* annotation_service.py:326-333  images.update_one with the count read
UpdateImageRecord(c) ==
    /\ UNCHANGED <<sessionVars, uploadVars, ingestVars, datasetVars, decodeVars,
                   urlVars>>
    /\ calls[c].pc = "update_image"
    /\ image_records' = UpdateImageAnnotationCount(image_records, calls[c].image_id,
                                                   calls[c].count)
    /\ calls' = [calls EXCEPT ![c].pc = "count_dataset"]
    /\ UNCHANGED <<annotation_docs, annotations_issued, dataset_record, rpc,
                   split_counts, touched>>

\* annotation_service.py:342  count = count_documents({"dataset_id": dataset_id})
CountDatasetAnnotations(c) ==
    /\ UNCHANGED <<sessionVars, uploadVars, ingestVars, datasetVars, decodeVars,
                   urlVars>>
    /\ calls[c].pc = "count_dataset"
    /\ calls' = [calls EXCEPT
                    ![c].pc = "update_dataset",
                    ![c].count = count_documents(annotation_docs, 0)]
    /\ UNCHANGED <<image_records, annotation_docs, annotations_issued,
                   dataset_record, rpc, split_counts, touched>>

\* annotation_service.py:344-350  datasets.update_one with the count read;
\* the call returns.
UpdateDatasetRecord(c) ==
    /\ UNCHANGED <<sessionVars, uploadVars, ingestVars, datasetVars, decodeVars,
                   urlVars>>
    /\ calls[c].pc = "update_dataset"
    /\ dataset_record' = UpdateDatasetAnnotationStats(dataset_record, calls[c].count)
    /\ calls' = [calls EXCEPT ![c] = NoCall]
    /\ UNCHANGED <<image_records, annotation_docs, annotations_issued, rpc,
                   split_counts, touched>>

(***************************************************************************)
(* The URL batch, MinioService.get_files_urls (minio_service.py:382-457).  *)
(* The URL of an object name is written Url(name).                         *)
(***************************************************************************)
Url(object_name) == <<"url", object_name>>

\* The lists of at most MaxNames object names; names may repeat.
ObjectNameLists == UNION {[1..n -> Keys] : n \in 0..MaxNames}

\* minio_service.py:131-158  _get_single_file_url: success with the URL when
\* presigned_get_object has returned, failure when it has raised.
get_single_file_url(object_name, presigned_ok) ==
    [success |-> presigned_ok, object_name |-> object_name,
     url |-> IF presigned_ok THEN Url(object_name) ELSE <<>>]

\* minio_service.py:434  urls[result["object_name"]] = result["url"]: a
\* dict, as the set of its (key, value) pairs; setting a key it already
\* holds replaces the value.
DictSet(dict, key, value) == {kv \in dict : kv[1] # key} \cup {<<key, value>>}

UrlsIdle ==
    /\ object_names = <<>>
    /\ gpc = "idle"
    /\ url_futures = <<>>
    /\ url_results = <<>>
    /\ urls = {}
    /\ url_failed_list = <<>>
    /\ url_summary = NoSummary

\* minio_service.py:403-426  get_files_urls up to the submission of the
\* tasks: an empty list is answered at once with the zero summary.
GetFilesUrlsBegin ==
    /\ UNCHANGED <<sessionVars, uploadVars, ingestVars, datasetVars, decodeVars,
                   recordVars>>
    /\ gpc = "start"
    /\ IF object_names = <<>>
       THEN /\ gpc' = "done"
            /\ url_summary' = [total |-> 0, successful |-> 0, failed |-> 0]
            /\ UNCHANGED url_futures
       ELSE /\ gpc' = "collect"
            /\ url_futures' = [i \in DOMAIN object_names |->
                                  [st |-> "queued", success |-> FALSE, runs |-> 0]]
            /\ UNCHANGED url_summary
    /\ UNCHANGED <<object_names, url_results, urls, url_failed_list>>

\* minio_service.py:141-158  a pool thread runs the task of list entry i:
\* presigned_get_object returns or raises.
PresignedGetObject(i, presigned_ok) ==
    /\ UNCHANGED <<sessionVars, uploadVars, ingestVars, datasetVars, decodeVars,
                   recordVars>>
    /\ gpc = "collect"
    /\ i \in DOMAIN url_futures
    /\ url_futures[i].st = "queued"
    /\ url_futures' =
          [url_futures EXCEPT ![i] =
              [st |-> "finished",
               success |-> get_single_file_url(object_names[i], presigned_ok).success,
               runs |-> @.runs + 1]]
    /\ UNCHANGED <<object_names, gpc, url_results, urls, url_failed_list,
                   url_summary>>

\* minio_service.py:429-442  as_completed yields the finished task of entry
\* i: its result is appended, and its URL or its failure recorded.
UrlAsCompleted(i) ==
    /\ UNCHANGED <<sessionVars, uploadVars, ingestVars, datasetVars, decodeVars,
                   recordVars>>
    /\ gpc = "collect"
    /\ i \in DOMAIN url_futures
    /\ url_futures[i].st = "finished"
    /\ url_futures' = [url_futures EXCEPT ![i].st = "yielded"]
    /\ LET result == get_single_file_url(object_names[i], url_futures[i].success)
       IN /\ url_results' = Append(url_results, result)
          /\ IF result.success
             THEN /\ urls' = DictSet(urls, result.object_name, result.url)
                  /\ UNCHANGED url_failed_list
             ELSE /\ url_failed_list' =
                        Append(url_failed_list, [object_name |-> result.object_name])
                  /\ UNCHANGED urls
    /\ UNCHANGED <<object_names, gpc, url_summary>>

\* minio_service.py:444-457  every task has been yielded: the summary is
\* built and returned.
GetFilesUrlsReturn ==
    /\ UNCHANGED <<sessionVars, uploadVars, ingestVars, datasetVars, decodeVars,
                   recordVars>>
    /\ gpc = "collect"
    /\ \A i \in DOMAIN url_futures : url_futures[i].st = "yielded"
    /\ gpc' = "done"
    /\ url_summary' = [total |-> Len(object_names),
                       successful |-> Cardinality(urls),
                       failed |-> Len(url_failed_list)]
    /\ UNCHANGED <<object_names, url_futures, url_results, urls, url_failed_list>>

(***************************************************************************)
(* Specifications.  Each follows one component and holds the others still. *)
(***************************************************************************)
NextSessions ==
    \/ \E fn \in FilenameInputs, ts \in TotalSizeInputs, tc \in TotalChunksInputs :
          StartUpload(fn, ts, tc)
    \/ \E s \in RequestIds : UploadChunkNotFound(s)
    \/ \E s \in RequestIds, i \in ChunkIndexInputs : UploadChunkInvalid(s, i)
    \/ \E s \in RequestIds, i \in ChunkIndexInputs : UploadChunkOpen(s, i)
    \/ \E s \in RequestIds, i \in ChunkIndexInputs : UploadChunkOpenFail(s, i)
    \/ \E r \in DOMAIN inflight, d \in Payloads : UploadChunkWrite(r, d)
    \/ \E r \in DOMAIN inflight : UploadChunkFail(r)
    \/ \E s \in RequestIds : CompleteUploadRefuse(s)
    \/ \E s \in RequestIds, k \in FailPoints : CompleteUpload(s, k)
    \/ \E ok \in BOOLEAN : ProcessDataset(ok)
    \/ SafeRemoveTempDir
    \/ PopSession

InitSessionSpec ==
    InitSessions /\ UploaderIdle /\ IngestIdle /\ DatasetIdle /\ DecodeIdle
    /\ RecordsIdle
    /\ UrlsIdle

SessionSpec == InitSessionSpec /\ [][NextSessions]_vars

\* One call of upload_files, on any list, pool size and retry limit.
InitUpload ==
    /\ InitSessions
    /\ IngestIdle
    /\ DatasetIdle
    /\ DecodeIdle
    /\ RecordsIdle
    /\ UrlsIdle
    /\ file_list \in FileLists
    /\ max_workers \in 1..MaxWorkers
    /\ max_retries \in 0..MaxRetries
    /\ upc = "start"
    /\ batch = <<>>
    /\ fut = <<>>
    /\ results = <<>>
    /\ all_results = EmptyBag
    /\ success_list = <<>>
    /\ failed_list = <<>>
    /\ retry_count = 0
    /\ retry_attempts = <<>>
    /\ summary = NoSummary
    /\ store = {}

NextUpload ==
    \/ UploadFilesBegin
    \/ \E i \in 1..(MaxItems + MaxImages) : WorkerTake(i)
    \/ \E i \in 1..(MaxItems + MaxImages), put_ok \in BOOLEAN : FputObject(i, put_ok)
    \/ \E i \in 1..(MaxItems + MaxImages) : AsCompleted(i)
    \/ BatchUploadReturn
    \/ RetryLoop
    \/ RetryDispatch

UploadSpec == InitUpload /\ [][NextUpload]_vars

\* The pool threads run, every fput_object returns or raises, sleep returns.
UploadFairSpec == UploadSpec /\ WF_vars(NextUpload)

\* One call of process_split, on any split directory.
InitIngest ==
    /\ InitSessions
    /\ UploaderIdle
    /\ DatasetIdle
    /\ DecodeIdle
    /\ RecordsIdle
    /\ UrlsIdle
    /\ ipc = "start"
    /\ split_dirs \in SplitDirs
    /\ image_files \in {[j \in 1..n |-> j] : n \in 0..MaxImages}
    /\ next_image = 1
    /\ upload_list = <<>>
    /\ image_doc_list = <<>>
    /\ total_file_size = 0
    /\ images = {}
    /\ split_result = NoSplitResult

NextIngest ==
    \/ ProcessSplitBegin
    \/ \E outcome \in PrepareOutcomes : PrepareImage(outcome)
    \/ CallUploadFiles
    \/ NextUpload
    \/ InsertConfirmed

IngestSpec == InitIngest /\ [][NextIngest]_vars

\* The datasets collection, with or without a unique index on name.
InitDatasets ==
    /\ InitSessions
    /\ UploaderIdle
    /\ IngestIdle
    /\ DecodeIdle
    /\ RecordsIdle
    /\ UrlsIdle
    /\ datasets = <<>>
    /\ name_index \in BOOLEAN
    /\ ids_issued = 0
    /\ jpc = "idle"
    /\ flow = "service"
    /\ job_name = "a"
    /\ dataset_id = 0
    /\ job_outcome = "none"
    /\ splits_done = <<>>
    /\ missing_splits = {}
    /\ create_resp = "none"

NextDatasets ==
    \/ \E name \in DatasetNames, type_valid \in BOOLEAN :
          CreateDatasetApi(name, type_valid)
    \/ \E f \in Flows, name \in DatasetNames : IngestBegin(f, name)
    \/ \E ok \in BOOLEAN : LoadDescriptor(ok)
    \/ CreateRecord
    \/ \E directories \in SplitDirs, outcome \in {"zeros", "counts", "raises"} :
          ProcessNextSplit(directories, outcome)
    \/ UpdateDatasetStats

DatasetSpec == InitDatasets /\ [][NextDatasets]_vars

\* One call of parse_annotations, on any label file and dataset type.
InitDecode ==
    /\ InitSessions
    /\ UploaderIdle
    /\ IngestIdle
    /\ DatasetIdle
    /\ label_file \in LabelFiles
    /\ decode_type \in DecodeTypeInputs
    /\ decoded = <<>>
    /\ kpc = "called"
    /\ root_listing = {}
    /\ inferred = "none"
    /\ RecordsIdle
    /\ UrlsIdle

NextDecode == ParseAnnotations

DecodeSpec == InitDecode /\ [][NextDecode]_vars

\* One call of get_dataset_type, on any set of root entries.
InitInfer ==
    /\ InitSessions
    /\ UploaderIdle
    /\ IngestIdle
    /\ DatasetIdle
    /\ label_file = NoFile
    /\ decode_type = "detect"
    /\ decoded = <<>>
    /\ kpc = "idle"
    /\ root_listing \in SUBSET RootEntries
    /\ inferred = "none"
    /\ RecordsIdle
    /\ UrlsIdle

InferSpec == InitInfer /\ [][GetDatasetType]_vars

\* One importer run, with the calls of one caller of AnnotationService at
\* any time.
InitRecords ==
    /\ InitSessions
    /\ UploaderIdle
    /\ IngestIdle
    /\ DatasetIdle
    /\ DecodeIdle
    /\ RecordsIdle
    /\ UrlsIdle

\* The calls of AnnotationService, each a sequence of store operations.
NextAnnotations ==
    \/ \E image_id \in 1..(2 * MaxSplitImages + 1) : CreateAnnotation(image_id)
    \/ \E annotation \in annotation_docs : DeleteAnnotation(annotation)
    \/ \E c \in 1..MaxCalls : CountImageAnnotations(c)
    \/ \E c \in 1..MaxCalls : UpdateImageRecord(c)
    \/ \E c \in 1..MaxCalls : CountDatasetAnnotations(c)
    \/ \E c \in 1..MaxCalls : UpdateDatasetRecord(c)

NextRecords ==
    \/ ImporterCreateRecord
    \/ \E lens \in UNION {[1..n -> 0..MaxAnnotations] : n \in 0..MaxSplitImages} :
           ImporterProcessSplit(lens)
    \/ ImporterUpdateStats
    \/ NextAnnotations /\ \A c \in 2..MaxCalls : calls'[c].pc = "idle"

RecordSpec == InitRecords /\ [][NextRecords]_vars

\* AnnotationService calls on the records a finished importer run has left:
\* images of the train split with any annotation counts, and no document in
\* the annotations collection.
InitAnnotations ==
    /\ InitSessions
    /\ UploaderIdle
    /\ IngestIdle
    /\ DatasetIdle
    /\ DecodeIdle
    /\ UrlsIdle
    /\ \E lens \in UNION {[1..n -> 0..MaxAnnotations] : n \in 0..MaxSplitImages} :
          LET docs == [j \in DOMAIN lens |-> ImageRecord(j, "train", lens[j])]
          IN /\ image_records = SeqRange(docs)
             /\ split_counts =
                   [s \in {"train", "val"} |->
                       IF s = "train"
                       THEN [images |-> Len(docs), annotations |-> SumAnnotations(docs)]
                       ELSE [images |-> 0, annotations |-> 0]]
             /\ dataset_record =
                   [exists |-> TRUE, num_images |-> Len(docs),
                    num_annotations |-> SumAnnotations(docs),
                    splits |-> [s \in {"train", "val"} |->
                                   IF s = "train" THEN Len(docs) ELSE 0]]
    /\ annotation_docs = {}
    /\ annotations_issued = 0
    /\ rpc = "done"
    /\ calls = [c \in 1..MaxCalls |-> NoCall]
    /\ touched = {}

AnnotationSpec == InitAnnotations /\ [][NextAnnotations]_vars

\* One call of get_files_urls, on any list of object names.
InitUrls ==
    /\ InitSessions
    /\ UploaderIdle
    /\ IngestIdle
    /\ DatasetIdle
    /\ DecodeIdle
    /\ RecordsIdle
    /\ object_names \in ObjectNameLists
    /\ gpc = "start"
    /\ url_futures = <<>>
    /\ url_results = <<>>
    /\ urls = {}
    /\ url_failed_list = <<>>
    /\ url_summary = NoSummary

NextUrls ==
    \/ GetFilesUrlsBegin
    \/ \E i \in 1..MaxNames, presigned_ok \in BOOLEAN : PresignedGetObject(i, presigned_ok)
    \/ \E i \in 1..MaxNames : UrlAsCompleted(i)
    \/ GetFilesUrlsReturn

UrlSpec == InitUrls /\ [][NextUrls]_vars

(***************************************************************************)
(* Properties of the upload sessions.                                      *)
(***************************************************************************)
Received(s) == upload_sessions[s].received_chunks
Total(s) == upload_sessions[s].total_chunks
InRange(s, i) == 0 <= i /\ i < Total(s)
Full(s) == Received(s) = 0..(Total(s) - 1)

RECURSIVE ConcatByIndex(_, _)
ConcatByIndex(fs, n) ==
    IF n <= 0 THEN <<>> ELSE ConcatByIndex(fs, n - 1) \o fs[n - 1].data

TempGone(s) ==
    /\ s \notin dirs
    /\ ~assembled[s].ex
    /\ \A i \in ChunkIndexInputs : ~parts[s][i].ex

SessionUntouched == UNCHANGED <<upload_sessions, dirs, parts, assembled, inflight>>

\* The step on which a complete call on session s returns its response.
CompleteReturns(s) ==
    \/ cpc = "idle" /\ cpc' = "idle" /\ resp' # resp
          /\ resp'.op = "complete" /\ resp'.sid = s
    \/ cpc # "idle" /\ cpc' = "idle" /\ csid = s

\* C3 as stated, for a session that declares at least one chunk: complete
\* succeeds if and only if the received-index set equals
\* {0..total_chunks-1}; otherwise it fails with Incomplete and the session
\* stays registered and unchanged.
C3_CompleteSucceedsIffAllReceived ==
    [][\A s \in SessionIds :
          (Registered(s) /\ Total(s) >= 1 /\ CompleteReturns(s)) =>
             IF Full(s) THEN resp'.status = "ok"
             ELSE resp'.status = "Incomplete" /\ SessionUntouched]_vars

\* C3 as amended: complete succeeds only with the full set; it fails with
\* Incomplete exactly when the set is not {0..total_chunks-1} or total_chunks
\* is negative, and then leaves the session registered and unchanged; with
\* the full set it either succeeds or fails with an internal error.
C3_IncompleteIffNotAllReceived ==
    [][\A s \in SessionIds : (Registered(s) /\ CompleteReturns(s)) =>
          /\ resp'.status \in {"ok", "Incomplete", "error"}
          /\ resp'.status = "ok" => Full(s)
          /\ resp'.status = "Incomplete" <=> (~Full(s) \/ Total(s) < 0)
          /\ resp'.status = "Incomplete" =>
                (SessionUntouched /\ s \in DOMAIN upload_sessions')]_vars

C3_Witness ==
    /\ resp.op = "complete" /\ resp.status = "Incomplete"
    /\ Registered(resp.sid)
    /\ Total(resp.sid) = 2 /\ Received(resp.sid) = {1}

\* C4: the file complete assembles is the concatenation of the chunk files
\* in increasing index order 0..total_chunks-1, whatever the order in which
\* the chunks arrived, and the chunk files are consumed.
C4_ReassemblyInIndexOrder ==
    [][(cpc = "idle" /\ cpc' = "process") =>
          /\ assembled'[csid'] =
                File(ConcatByIndex(parts[csid'], Total(csid')))
          /\ \A i \in ChunkIndexInputs : ~parts'[csid'][i].ex]_vars

\* Chunk 1 (<<1>>) arrived before chunk 0 (<<2, 2>>), and the assembled file
\* reads chunk 0 then chunk 1.
C4_Witness ==
    /\ cpc = "process"
    /\ resp.op = "chunk" /\ resp.status = "success" /\ resp.detail = "late"
    /\ assembled[csid] = File(<<2, 2, 1>>)

C8_FailureCleansUpBeforeDiscard ==
    /\ \A s \in used : ~Registered(s) => TempGone(s)
    /\ (resp.op = "complete" /\ resp.status = "error") =>
          (resp.sid \in used /\ ~Registered(resp.sid) /\ TempGone(resp.sid))

\* The step on which a chunk request is answered NotFound or InvalidArgument.
ChunkRejected ==
    resp' # resp /\ resp'.op = "chunk"
       /\ resp'.status \in {"NotFound", "InvalidArgument"}

\* The chunk files that requests suspended between open and write hold open.
OpenFiles(reqs) == {<<r.sid, r.idx>> : r \in DOMAIN reqs}

\* C9: a chunk request is answered NotFound exactly when the session is
\* unknown and InvalidArgument only when the index is outside
\* [0, total_chunks); such a request writes no file and changes no session;
\* a request gets to open a chunk file, and a chunk file is created, only
\* for a registered session and an index in range; the received-index set
\* is always a subset of [0, total_chunks).
C9_RejectedChunksChangeNothing ==
    /\ [][/\ ChunkRejected =>
               /\ SessionUntouched
               /\ resp'.status = "NotFound" <=> ~Registered(resp'.sid)
               /\ resp'.status = "InvalidArgument" =>
                     ~InRange(resp'.sid, resp'.idx)
          /\ \A f \in OpenFiles(inflight') \ OpenFiles(inflight) :
               Registered(f[1]) /\ InRange(f[1], f[2])
          /\ \A s \in SessionIds, i \in ChunkIndexInputs :
               (parts'[s][i].ex /\ ~parts[s][i].ex) =>
                     (Registered(s) /\ InRange(s, i))]_vars
    /\ [](\A s \in DOMAIN upload_sessions :
             \A i \in Received(s) : InRange(s, i))

C9_Witness ==
    /\ resp.op = "chunk" /\ resp.status = "InvalidArgument"
    /\ Registered(resp.sid)
    /\ resp.idx = Total(resp.sid)
    /\ Received(resp.sid) # {}

\* C10: a reception of an index that is already in the received-index set
\* (by a request that had the chunk file to itself) leaves the set, and so
\* the outcome of the completeness gate, as they were, and leaves the chunk
\* file holding exactly the bytes of this reception.
C10_ReceiveChunkIdempotent ==
    [][\A r \in DOMAIN inflight, d \in Payloads :
          (/\ r.handle = "alone"
           /\ Registered(r.sid)
           /\ r.idx \in Received(r.sid)
           /\ resp'.op = "chunk"
           /\ UploadChunkWrite(r, d)) =>
              /\ upload_sessions'[r.sid].received_chunks = Received(r.sid)
              /\ AllChunksReceived(upload_sessions'[r.sid])
                    <=> AllChunksReceived(upload_sessions[r.sid])
              /\ parts'[r.sid][r.idx] = File(d)]_vars

C10_Witness ==
    /\ resp.op = "chunk" /\ resp.status = "success" /\ resp.detail = "again"
    /\ Registered(resp.sid)
    /\ parts[resp.sid][resp.idx] = File(<<1>>)

\* C11: a start that declares a total_size above the configured maximum
\* fails with TooLarge, registers no session and creates no directory or
\* file; every registered session declared a size within the maximum, and a
\* chunk request succeeds only on an id that a start has registered.
C11_OversizeStartRejected ==
    /\ [][\A ts \in TotalSizeInputs, f \in FilenameInputs, tc \in TotalChunksInputs :
            (ts > max_upload_size /\ resp'.op = "start" /\ StartUpload(f, ts, tc)) =>
                /\ resp'.status = "TooLarge"
                /\ resp'.sid \notin RequestIds
                /\ UNCHANGED <<upload_sessions, temp_files, dirs, parts, assembled>>]_vars
    /\ [](\A s \in DOMAIN upload_sessions :
             upload_sessions[s].total_size <= max_upload_size)
    /\ []((resp.op = "chunk" /\ resp.status = "success") => resp.sid \in used)

\* The oversize start was the only request so far: nothing is registered.
C11_Witness ==
    /\ resp.op = "start" /\ resp.status = "TooLarge"
    /\ upload_sessions = <<>> /\ dirs = {} /\ used = {}

\* The step on which a suspended chunk request resumes and returns success.
ChunkReturnsSuccess ==
    /\ BagCardinality(inflight') < BagCardinality(inflight)
    /\ resp'.op = "chunk" /\ resp'.status = "success"

\* C12: whatever the interleaving of the chunk requests of a session, each
\* one that returns success adds exactly its index to the received-index set
\* and no other step changes the set: once all have returned, the set is the
\* set of the indices sent, none lost and none counted twice.
C12_ConcurrentInsertionSafe ==
    [][\A s \in SessionIds :
          (Registered(s) /\ s \in DOMAIN upload_sessions') =>
             upload_sessions'[s].received_chunks =
                IF ChunkReturnsSuccess /\ resp'.sid = s
                THEN Received(s) \cup {resp'.idx}
                ELSE Received(s)]_vars

\* Two requests for index 0 and one for index 1 overlapped: the second
\* request for index 0 returns while the request for index 1 is suspended.
C12_Witness ==
    /\ resp.op = "chunk" /\ resp.status = "success" /\ resp.detail = "again"
    /\ Registered(resp.sid)
    /\ Received(resp.sid) = {resp.idx}
    /\ \E r \in DOMAIN inflight : r.sid = resp.sid /\ r.idx # resp.idx

(***************************************************************************)
(* Properties of the batch uploader.                                       *)
(***************************************************************************)
\* Every result collected so far, in this pass or in an earlier one.
Collected == BagToSet(all_results) \cup {results[j] : j \in DOMAIN results}

\* The number of times fput_object has been called on the item: once for
\* each of its results, and once if a thread is on it or has just left it.
Attempts(item) ==
    LET ofItem(r) == Item(r.file_path, r.object_name) = item
        earlier == {r \in BagToSet(all_results) : ofItem(r)}
        RECURSIVE Sum(_)
        Sum(S) == IF S = {} THEN 0
                  ELSE LET r == CHOOSE x \in S : TRUE
                       IN CopiesIn(r, all_results) + Sum(S \ {r})
    IN Sum(earlier)
       + Cardinality({j \in DOMAIN results : ofItem(results[j])})
       + Cardinality({i \in DOMAIN fut :
                        /\ batch[i] = item
                        /\ fut[i].st \in {"running", "finished"}})

\* C2: when upload_files returns, len(success_list) + len(failed_list) =
\* len(items) = summary.total, and summary.successful and summary.failed are
\* the two lengths.
C2_EveryItemSucceededOrFailed ==
    upc = "done" =>
        /\ Len(success_list) + Len(failed_list) = Len(file_list)
        /\ summary.total = Len(file_list)
        /\ summary.successful = Len(success_list)
        /\ summary.failed = Len(failed_list)

C2_Witness ==
    /\ upc = "done"
    /\ Len(file_list) = 2 /\ retry_count = 2
    /\ Len(success_list) = 1 /\ Len(failed_list) = 1
    /\ BagCardinality(all_results) = 5

C6_UploadFilesTerminates ==
    /\ <>(upc = "done")
    /\ [](/\ retry_count <= max_retries
          /\ Len(retry_attempts) <= retry_count
          /\ \A p \in DOMAIN file_list : Attempts(file_list[p]) <= 1 + max_retries)
    /\ [][retry_count' # retry_count =>
             /\ retry_count' = retry_count + 1
             /\ failed_list # <<>>
             /\ retry_count < max_retries]_vars
    /\ [][(upc = "loop" /\ (failed_list = <<>> \/ retry_count = max_retries))
             => upc' = "done"]_vars
    /\ [](upc = "done" => (failed_list = <<>> \/ retry_count = max_retries))

C6_Witness ==
    /\ upc = "done"
    /\ max_retries = 2 /\ retry_count = 2
    /\ Len(retry_attempts) = 2
    /\ failed_list # <<>>
    /\ Attempts(ItemOf(failed_list[1])) = 3

(***************************************************************************)
(* Properties of the ingestion of a split.                                 *)
(***************************************************************************)
\* C1: every Image document in the document store has a file_path that
\* upload_files reported in success_list and that the object store has
\* confirmed; a candidate whose upload is still in failed_list when
\* upload_files has returned is never inserted.
C1_InsertedOnlyIfUploaded ==
    /\ \A image \in images :
          /\ image.file_path \in SeqRange(success_list)
          /\ \E it \in store : it.object_name = image.file_path
    /\ upc = "done" =>
          \A j \in DOMAIN failed_list : \A image \in images :
              image.file_path # failed_list[j].object_name

C1_Witness ==
    /\ ipc = "returned"
    /\ Len(image_doc_list) = 2
    /\ Cardinality(images) = 1
    /\ Len(failed_list) = 1
    /\ retry_count = split_max_retries

\* The staged items: the images the prepare loop put on the upload list.
Staged == SeqRange(upload_list)

\* The staged items none of whose puts ever returned.
PermanentlyFailed == {it \in Staged : it \notin store}

RECURSIVE SumOfCounts(_)
SumOfCounts(S) ==
    IF S = {} THEN 0
    ELSE LET image == CHOOSE x \in S : TRUE
         IN image.annotation_count + SumOfCounts(S \ {image})

RECURSIVE SumOfSizes(_)
SumOfSizes(S) ==
    IF S = {} THEN 0
    ELSE LET it == CHOOSE x \in S : TRUE
         IN FileSize(it.file_path) + SumOfSizes(S \ {it})

HasRecord == dataset_id # 0 /\ dataset_id \in DOMAIN datasets

\* C15 as stated: an ingestion that ended with an exception has left a
\* dataset record in status error with a non-empty message, and no
\* ingestion that has ended leaves its dataset in status processing.
C15_FailedIngestLeavesErrorRecord ==
    /\ job_outcome = "failure" =>
          /\ HasRecord
          /\ datasets[dataset_id].status = "error"
          /\ datasets[dataset_id].error_message # ""
    /\ (jpc = "ended" /\ HasRecord) =>
          datasets[dataset_id].status # "processing"

\* C16 as stated: the dataset of an ingestion is active only once train,
\* val and test have been processed, in that order, and the stats update is
\* written; an ingestion that processed every split ends with its dataset
\* active; and no dataset goes from active or error back to processing.
C16_ActiveOnlyAfterAllSplits ==
    /\ []((HasRecord /\ datasets[dataset_id].status = "active") =>
            /\ splits_done = <<"train", "val", "test">>
            /\ datasets[dataset_id].stats_written)
    /\ []((jpc = "ended" /\ HasRecord /\ splits_done = SplitOrder(flow)) =>
            /\ job_outcome = "success"
            /\ datasets[dataset_id].status = "active")
    /\ [](\E n \in 0..3 : splits_done = SubSeq(<<"train", "val", "test">>, 1, n))
    /\ [][\A d \in DOMAIN datasets \cap DOMAIN datasets' :
             datasets[d].status \in {"active", "error"} =>
                 datasets'[d].status # "processing"]_vars

\* C17 as stated: POST /datasets with a name that a stored dataset already
\* has is answered Conflict and leaves the stored datasets unchanged.
C17_DuplicateNameIsConflict ==
    [][\A name \in DatasetNames :
          (CreateDatasetApi(name, TRUE) /\ SameName(name) # {}) =>
              (create_resp' = "Conflict" /\ datasets' = datasets)]_vars

(***************************************************************************)
(* Properties of the label decoder.                                        *)
(***************************************************************************)
\* A non-blank line that decodes without an exception.
WellFormed(line_parts, type) == line_parts # <<>> /\ ~DecodeLine(line_parts, type).raised

RECURSIVE SkippingBadLines(_, _)
\* The annotations of the well-formed lines, in order, the others skipped.
SkippingBadLines(lines, type) ==
    IF lines = <<>> THEN <<>>
    ELSE (IF WellFormed(Head(lines), type)
          THEN DecodeLine(Head(lines), type).annotations ELSE <<>>)
            \o SkippingBadLines(Tail(lines), type)

\* C18 as stated: a line whose parsing raises is skipped alone; the
\* annotations returned are those of every well-formed line of the file,
\* before and after it.
C18_BadLineSkippedAlone ==
    (kpc = "returned" /\ label_file.ex) =>
        decoded = SkippingBadLines(label_file.data, decode_type)

\* C19 as stated: every detect annotation the decoder returns has its four
\* values within [0, 1] (0 to 10 tenths).
C19_DetectValuesNormalised ==
    \A j \in DOMAIN decoded :
        decoded[j].annotation_type = "detect" =>
            \A v \in DOMAIN decoded[j].values :
                0 <= decoded[j].values[v] /\ decoded[j].values[v] <= 10

\* C20 as stated: every pose annotation the decoder returns has a number of
\* keypoint values divisible by 3.
C20_PoseKeypointsInTriples ==
    \A j \in DOMAIN decoded :
        decoded[j].annotation_type = "pose" =>
            Len(decoded[j].values) % 3 = 0


\* C21 as stated: a call with a dataset type outside the five known ones
\* does not return normally (the error reaches the caller), and with a known
\* type every annotation returned carries that type.
C21_UnknownTypeIsParseError ==
    /\ decode_type \notin DatasetTypes => kpc # "returned"
    /\ decode_type \in DatasetTypes =>
           \A j \in DOMAIN decoded : decoded[j].annotation_type = decode_type

\* yolo_validator.py:189, 211  the fewest tokens of a detect and an obb line
Arity(type) == IF type = "detect" THEN 5 ELSE 9

\* A line with a usable class id and fewer tokens than its type requires.
ShortLine(line_parts, type) ==
    /\ line_parts # <<>>
    /\ ~ParseInt(line_parts[1]).raised
    /\ ~ClassName(ParseInt(line_parts[1]).value).raised
    /\ Len(line_parts) < Arity(type)

C23_GeometryShapes ==
    \A j \in DOMAIN decoded :
        /\ decoded[j].annotation_type = "obb" => Len(decoded[j].values) = 8
        /\ decoded[j].annotation_type = "segment" => Len(decoded[j].values) >= 6

\* C24 as stated: an annotation's class name is the name at its class id when
\* the id is within the list and the synthesized name otherwise, negative
\* ids included; and a line whose tokens are numbers is decoded without error.
C24_ClassNameByIndexOrSynthesized ==
    /\ \A j \in DOMAIN decoded :
           decoded[j].class_name =
               IF 0 <= decoded[j].class_id /\ decoded[j].class_id < Len(ClassNames)
               THEN ClassNames[decoded[j].class_id + 1]
               ELSE ClassLabel(decoded[j].class_id)
    /\ (kpc = "returned" /\ label_file.ex) =>
           \A j \in DOMAIN label_file.data :
               LET l == label_file.data[j] IN
               (/\ l # <<>>
                /\ ~ParseInt(l[1]).raised
                /\ ~FloatsRaise(CoordinateTokens(l, decode_type)))
                   => ~DecodeLine(l, decode_type).raised

\* C25: the type returned is that of the first heuristic, in the order
\* oriented-box, classification, segmentation, pose, that matches the root,
\* and detect when none matches.
C25_FirstMatchingHeuristicWins ==
    inferred # "none" =>
        LET order == <<"obb", "classify", "segment", "pose">>
            matches(k) ==
                IF k = 1 THEN HasObbAnnotations(root_listing)
                ELSE IF k = 2 THEN HasClassifyAnnotations(root_listing)
                ELSE IF k = 3 THEN HasSegmentationAnnotations(root_listing)
                ELSE HasPoseAnnotations(root_listing)
        IN  /\ (\A k \in 1..4 : ~matches(k)) => inferred = "detect"
            /\ \A k \in 1..4 :
                   (matches(k) /\ \A e \in 1..(k - 1) : ~matches(e))
                       => inferred = order[k]

\* The oriented-box, classification and pose heuristics all match, and the
\* type returned is obb.
C25_Witness ==
    /\ inferred = "obb"
    /\ HasClassifyAnnotations(root_listing)
    /\ HasPoseAnnotations(root_listing)

(***************************************************************************)
(* Properties of the stored counters.                                      *)
(***************************************************************************)
\* C26 as stated: whenever the dataset record exists, num_images is the sum
\* of the image counters of the three splits (a split the splits field does
\* not name counts 0), and once the statistics are written num_annotations
\* is the sum of the annotation counters of the three splits (the
\* annotation counts of the images of each).
C26_TotalsEqualSplitSums ==
    dataset_record.exists =>
        LET SplitImages(s) ==
                IF s \in DOMAIN dataset_record.splits
                THEN dataset_record.splits[s] ELSE 0
            SplitAnnotations(s) ==
                SumOfCounts({image \in image_records : image.split = s})
        IN
        /\ dataset_record.num_images =
               SplitImages("train") + SplitImages("val") + SplitImages("test")
        /\ (rpc = "done" =>
               dataset_record.num_annotations =
                   SplitAnnotations("train") + SplitAnnotations("val")
                     + SplitAnnotations("test"))

\* C27 as stated: every image record has annotation_count equal to the
\* length of its annotation list, and is_annotated exactly when the count is
\* positive.
C27_ImageCountersMatchAnnotations ==
    \A image \in image_records :
        /\ image.annotation_count = image.annotations
        /\ image.is_annotated = (image.annotation_count > 0)

(***************************************************************************)
(* Properties of one pass of the batch uploader and of its retry log.      *)
(***************************************************************************)
\* C28: in a pass, the step on which the put of an item raises changes the
\* future of that item only, and neither the results collected nor the lists
\* nor the position of the pass; no item ever has two results in a pass; the
\* pass ends only by returning, and when it returns every item of the batch
\* has exactly one result, successful exactly when its own put returned, and
\* the failed list holds exactly the items whose own put raised.
C28_FailureIsolatedToItem ==
    /\ [][\A i \in DOMAIN fut :
             (/\ upc = "attempt" /\ upc' = "attempt"
              /\ fut[i].st = "running"
              /\ fut'[i].st = "finished" /\ ~fut'[i].success)
                => /\ \A j \in DOMAIN fut \ {i} : fut'[j] = fut[j]
                   /\ UNCHANGED <<batch, results, success_list, failed_list>>]_vars
    /\ [](\A i \in DOMAIN batch :
             Cardinality({j \in DOMAIN results :
                             results[j].file_path = batch[i].file_path}) <= 1)
    /\ [][upc = "attempt" => upc' \in {"attempt", "loop"}]_vars
    /\ [][(upc = "attempt" /\ upc' = "loop") =>
             /\ Len(results) = Len(batch)
             /\ \A i \in DOMAIN batch :
                   /\ \E j \in DOMAIN results :
                         /\ results[j].file_path = batch[i].file_path
                         /\ results[j].success <=> batch[i] \in store
                   /\ (\E k \in DOMAIN failed_list' :
                          ItemOf(failed_list'[k]) = batch[i])
                        <=> batch[i] \notin store
             /\ Len(failed_list') =
                   Cardinality({i \in DOMAIN batch : batch[i] \notin store})]_vars

\* In a pass of two items the put of the first collected raised, and the
\* other was still attempted and succeeded.
C28_Witness ==
    /\ upc = "attempt"
    /\ Len(batch) = 2 /\ Len(results) = 2
    /\ ~results[1].success /\ results[1].error # 0
    /\ results[2].success

\* C29: in the first pass and in every retry round, no more than max_workers
\* puts are in progress at any time.
C29_AtMostMaxWorkersInFlight ==
    Cardinality(Running) <= max_workers

\* In a retry round with one worker, one put is in progress and another
\* item waits for the worker.
C29_Witness ==
    /\ upc = "attempt" /\ retry_count >= 1
    /\ max_workers = 1
    /\ Cardinality(Running) = max_workers
    /\ \E i \in DOMAIN fut : fut[i].st = "queued"

\* C30: the retry log has one entry per retry round finished, numbered
\* 1, 2, ... in order; each entry's files_retried is the number of items that
\* failed in the pass before it and equals successful + failed; when the call
\* has returned the log has total_retries entries and failed_list holds
\* exactly the items whose put raised in the last pass, each with the error
\* of that pass.
C30_RetryLogNumberedAndConsistent ==
    /\ [](/\ Len(retry_attempts) <= retry_count
          /\ \A k \in DOMAIN retry_attempts :
                /\ retry_attempts[k].attempt = k
                /\ retry_attempts[k].successful + retry_attempts[k].failed
                     = retry_attempts[k].files_retried
                /\ k > 1 => retry_attempts[k].files_retried
                              = retry_attempts[k - 1].failed)
    /\ [][Len(retry_attempts') > Len(retry_attempts) =>
             /\ Len(retry_attempts') = Len(retry_attempts) + 1
             /\ retry_attempts'[Len(retry_attempts')].files_retried
                  = Len(failed_list)]_vars
    /\ [](upc = "done" =>
             /\ Len(retry_attempts) = retry_count
             /\ {ItemOf(failed_list[j]) : j \in DOMAIN failed_list}
                  = {file_list[q] : q \in {r \in DOMAIN file_list :
                                              file_list[r] \notin store}}
             /\ \A j \in DOMAIN failed_list :
                   failed_list[j].error = retry_count + 1
             /\ retry_attempts # <<>> =>
                   Len(failed_list) = retry_attempts[Len(retry_attempts)].failed)

\* Two retry rounds: the first retried two items and recovered one, the
\* second retried the other in vain, and its error is that of the third pass.
C30_Witness ==
    /\ upc = "done"
    /\ retry_attempts =
          <<[attempt |-> 1, files_retried |-> 2, successful |-> 1, failed |-> 1],
            [attempt |-> 2, files_retried |-> 1, successful |-> 0, failed |-> 1]>>
    /\ Len(failed_list) = 1 /\ failed_list[1].error = 3

(***************************************************************************)
(* Properties of aborted ingestions, of missing splits, of retry rounds,   *)
(* of overlapping requests and of the URL batch.                           *)
(***************************************************************************)
\* C31 as stated: when complete has returned the error of an aborted
\* ingestion (the assembly failed, or the processing of the assembled
\* archive did), the assembled archive, the chunk files and the session's
\* temporary directory no longer exist.
C31_AbortRemovesTemporaryFiles ==
    \A s \in used :
        (resp = Resp("complete", s, 0, "error", "assembly")
            \/ resp = Resp("complete", s, 0, "error", "dataset")) =>
           /\ s \notin dirs
           /\ ~assembled[s].ex
           /\ \A i \in ChunkIndexInputs : ~parts[s][i].ex

\* C32 as stated: a split whose directory is missing is no error.  The step
\* on which process_split returns zeros for it raises nothing and leaves the
\* datasets as they were, the coordinator goes on with the next split, and
\* an ingestion that has gone through every split with one of them missing
\* has had its final stats update written.
C32_MissingSplitIsNotAnError ==
    /\ [][(jpc = "split" /\ missing_splits' # missing_splits) =>
             /\ jpc' = "split"
             /\ job_outcome' = job_outcome
             /\ datasets' = datasets
             /\ Len(splits_done') = Len(splits_done) + 1]_vars
    /\ []((jpc = "ended" /\ flow = "service" /\ missing_splits # {}
              /\ splits_done = <<"train", "val", "test">>) =>
            /\ job_outcome = "success"
            /\ datasets[dataset_id].stats_written)

\* C33: only the failed subset is retried.  The step that dispatches retry
\* round k submits exactly the items whose put failed in the pass before it
\* (the first pass for k = 1, round k-1 otherwise), each once, and none of
\* them is in the bucket; and no put is ever started or finished on an item
\* the bucket already holds.
C33_OnlyFailedSubsetRetried ==
    /\ [][(upc = "sleep" /\ upc' = "attempt") =>
             LET before == {r \in BagToSet(all_results) :
                               ~r.success /\ r.error = retry_count}
             IN /\ {batch'[j] : j \in DOMAIN batch'}
                     = {Item(r.file_path, r.object_name) : r \in before}
                /\ Len(batch') = Cardinality(before)
                /\ \A j \in DOMAIN batch' : batch'[j] \notin store
                /\ \A j \in DOMAIN batch' : fut'[j].st = "queued"]_vars
    /\ [][\A i \in DOMAIN fut :
             (i \in DOMAIN fut' /\ fut'[i].st # fut[i].st
                 /\ fut'[i].st \in {"running", "finished"}) =>
                 batch[i] \notin store]_vars

\* In a retry round of a two-item call, the item that failed is being put
\* again while the item confirmed in the first pass is in the bucket and
\* not in the round.
C33_Witness ==
    /\ upc = "attempt" /\ retry_count = 1
    /\ Len(file_list) = 2 /\ Len(batch) = 1
    /\ file_list[1] \in store
    /\ batch[1] = file_list[2]
    /\ fut[1].st = "running"

\* C34: upload passes never overlap.  A pass is dispatched only at the
\* start of the call or when the sleep of a retry round returns; the sleep
\* is entered only with no task of the previous pass queued, running or
\* uncollected; and while round k runs, the outcome of every put of the
\* earlier passes has been collected: rounds 1..k-1 are logged and
\* all_results holds one result for each item of each earlier pass.
C34_PassesNeverOverlap ==
    /\ []((upc = "attempt" /\ retry_count >= 1) =>
            LET RECURSIVE Retried(_)
                Retried(n) ==
                    IF n = 0 THEN 0
                    ELSE retry_attempts[n].files_retried + Retried(n - 1)
            IN /\ Len(retry_attempts) = retry_count - 1
               /\ BagCardinality(all_results)
                     = Len(file_list) + Retried(retry_count - 1)
               /\ \A i \in DOMAIN batch :
                     \E r \in BagToSet(all_results) :
                         /\ Item(r.file_path, r.object_name) = batch[i]
                         /\ r.error = retry_count)
    /\ [][(upc' = "attempt" /\ upc # "attempt") =>
             \/ upc = "start" /\ retry_count = 0
             \/ upc = "sleep" /\ retry_count >= 1]_vars
    /\ [][(upc' = "sleep" /\ upc # "sleep") =>
             /\ upc = "loop" /\ fut = <<>> /\ results = <<>>
             /\ retry_count' = retry_count + 1]_vars

\* The second retry round is running: two passes lie behind it.
C34_Witness ==
    /\ upc = "attempt" /\ retry_count = 2
    /\ Len(file_list) = 2 /\ Len(retry_attempts) = 1
    /\ retry_attempts[1].files_retried = 2
    /\ BagCardinality(all_results) = 4
    /\ \E i \in DOMAIN fut : fut[i].st = "running"

\* C35 as stated: the file complete assembles is never built from a
\* half-written chunk.  On the step on which complete has assembled the
\* file, the bytes it read for every index are a whole body a client sent,
\* never an empty or truncated chunk file.
C35_NeverAssembledFromHalfWrittenChunk ==
    [][(cpc = "idle" /\ cpc' = "process") =>
          \A i \in 0..(upload_sessions[csid'].total_chunks - 1) :
              parts[csid'][i].data \in Payloads]_vars

\* C36 as stated: whenever no request is under way, every index in the
\* received-index set of a session has a chunk file holding the whole body
\* of a successful reception; in particular, once a chunk request has been
\* answered with the save error, the received indices still have their
\* previously stored bytes.
C36_ReceivedIndexHasCompleteBytes ==
    /\ (cpc = "idle" /\ inflight = EmptyBag /\ resp.op = "chunk") =>
          \A s \in DOMAIN upload_sessions :
              \A i \in upload_sessions[s].received_chunks :
                  parts[s][i].ex /\ parts[s][i].data \in Payloads
    /\ (cpc = "idle" /\ inflight = EmptyBag
           /\ resp.op = "chunk" /\ resp.status = "error"
           /\ resp.sid \in DOMAIN upload_sessions) =>
          \A i \in upload_sessions[resp.sid].received_chunks :
              parts[resp.sid][i].data # <<>>

C38_EveryKeyAccountedOnce ==
    gpc = "done" =>
        /\ url_summary.total = Len(object_names)
        /\ url_summary.successful + url_summary.failed = url_summary.total
        /\ Len(url_results) = Len(object_names)
        /\ \A i \in DOMAIN url_futures : url_futures[i].runs = 1

\* C39 as stated: once every create_annotation and delete_annotation call
\* has run to completion, every image such a call was made on has a stored
\* annotation_count equal to the number of annotation documents that exist
\* for it, and the dataset's num_annotations equals the number of annotation
\* documents that exist for the dataset.
C39_CountersMatchAfterConcurrentCalls ==
    (touched # {} /\ \A c \in 1..MaxCalls : calls[c].pc = "idle") =>
        /\ \A image \in image_records :
               image.id \in touched =>
                   image.annotation_count
                       = Cardinality({a \in annotation_docs : a.image_id = image.id})
        /\ dataset_record.num_annotations = Cardinality(annotation_docs)

====
